---- MODULE Spec2Model ----
(***************************************************************************)
(* Dwarf: the Core cog (extension management and bot configuration         *)
(* commands), the CoreController settings and the Bot's global check.      *)
(*                                                                         *)
(* One command invocation is a coroutine.  Its position is kept in         *)
(* inv[i]: the batch loop index, the stack of _install/_update/_uninstall  *)
(* frames, the status lists (the defaultdict of lists) and the messages it *)
(* sent.  An action is the code between two suspension points on a reply   *)
(* (wait_for, wait_for_answer, wait_for_response).                         *)
(***************************************************************************)
EXTENDS Integers, Sequences, FiniteSets, TLC

VARIABLES
    installed,      \* the registry: names of the installed extensions, in insertion order
    packages,       \* the packages present in the environment
    pkgcalls,       \* the arguments of the install_package calls made so far, in order
    published,      \* the topics published on the cache ('restart', 'shutdown')
    settings,       \* the cache: the persisted settings
    command_prefix, \* Bot.command_prefix
    external,       \* calls made on the platform (user.edit, guild.leave, ...)
    event_loop,     \* Bot.loop: running, cancelling its tasks, or stopped
    users,          \* the User table: the rows, with their command_count
    inv             \* the command invocations; in ChoiceSpec, the calls of wait_for_choice

vars ==
    <<installed, packages, pkgcalls, published, settings, command_prefix, external,
      event_loop, users, inv>>

\* ---------------------------------------------------------------- bounds

\* the longest list of names given to install / update / uninstall
MaxBatch == 2
\* the deepest nesting of _install / _uninstall frames that is followed
MaxDepth == 3
\* the longest list of choices given to wait_for_choice
MaxChoices == 2

\* ---------------------------------------------------------------- values

\* Python's None, True and False where a value may be any of the three
None == "None"
True == "True"
False == "False"

Range(s) == {s[k] : k \in 1..Len(s)}

\* list.remove(x): removes the first occurrence of x
RECURSIVE Remove(_, _)
Remove(s, x) ==
    IF s = <<>> THEN <<>>
    ELSE IF Head(s) = x THEN Tail(s)
    ELSE <<Head(s)>> \o Remove(Tail(s), x)

\* the sequences over S of length 1..n
RECURSIVE SeqsUpTo(_, _)
SeqsUpTo(S, n) ==
    IF n = 0 THEN {}
    ELSE {<<x>> : x \in S}
         \cup SeqsUpTo(S, n - 1)
         \cup {Append(s, x) : s \in SeqsUpTo(S, n - 1), x \in S}

\* ---------------------------------------------------------------- the index

\* The extension index: what each extension declares.
\*   a                     no dependencies
\*   b -> a, c -> b        a chain
\*   d -> a, weather       two extension dependencies
\*   weather               one package
\*   multi                 two packages
\*   x <-> y               a dependency cycle
\* 'ghost' is in no index.
Index ==
    [a       |-> [packages |-> <<>>, extensions |-> <<>>],
     b       |-> [packages |-> <<>>, extensions |-> <<"a">>],
     c       |-> [packages |-> <<>>, extensions |-> <<"b">>],
     d       |-> [packages |-> <<>>, extensions |-> <<"a", "weather">>],
     weather |-> [packages |-> <<"requests-lib">>, extensions |-> <<>>],
     multi   |-> [packages |-> <<"requests-lib", "p2">>, extensions |-> <<>>],
     x       |-> [packages |-> <<>>, extensions |-> <<"y">>],
     y       |-> [packages |-> <<>>, extensions |-> <<"x">>]]

\* what a custom source repository provides for the one name registered with it
RepoDescriptor == [packages |-> <<>>, extensions |-> <<>>]

Urls == {"https://r"}
Names == DOMAIN Index \cup {"ghost"}
\* what the user may type as one item of a batch
Items == Names \cup Urls

\* ---------------------------------------------------------------- the registry

\* what an installed or installable extension declares
Declared(name) == IF name \in DOMAIN Index THEN Index[name] ELSE RepoDescriptor

\* resolve(name) succeeds: the index knows the name, or a custom source
\* repository was registered for it
Resolvable(name, repository) == repository # None \/ name \in DOMAIN Index

\* resolve(name): the descriptor
Resolve(name, repository) ==
    IF repository # None THEN RepoDescriptor ELSE Declared(name)

\* the declared dependencies that are not met by what is installed / available
Unsatisfied(descriptor, inst, pkgs) ==
    [packages   |-> SelectSeq(descriptor.packages, LAMBDA p : p \notin pkgs),
     extensions |-> SelectSeq(descriptor.extensions, LAMBDA e : e \notin Range(inst))]

NoUnsatisfied == [packages |-> <<>>, extensions |-> <<>>]

\* the closure is empty: the call returns None
IsNone(unsatisfied) == unsatisfied = NoUnsatisfied

\* install_extension past its ExtensionAlreadyInstalled check
InstallExtensionResolved(name, repository, inst, pkgs) ==
    IF ~Resolvable(name, repository)
    THEN [raised |-> "ExtensionNotInIndex", unsatisfied |-> NoUnsatisfied, installed |-> inst]
    ELSE LET u == Unsatisfied(Resolve(name, repository), inst, pkgs) IN
         [raised |-> None, unsatisfied |-> u,
          installed |-> IF IsNone(u) THEN Append(inst, name) ELSE inst]

\* BaseController.install_extension(name, repository): raises, or returns the
\* unsatisfied closure; the record is created when the closure is empty
install_extension(name, repository, inst, pkgs) ==
    IF name \in Range(inst)
    THEN [raised |-> "ExtensionAlreadyInstalled", unsatisfied |-> NoUnsatisfied,
          installed |-> inst]
    ELSE InstallExtensionResolved(name, repository, inst, pkgs)

\* BaseController.update_extension(name)
update_extension(name, inst, pkgs) ==
    IF name \notin Range(inst)
    THEN [raised |-> "ExtensionNotFound", unsatisfied |-> NoUnsatisfied]
    ELSE [raised |-> None, unsatisfied |-> Unsatisfied(Declared(name), inst, pkgs)]

\* the installed extensions that declare a dependency on name, in insertion order
Dependents(name, inst) ==
    SelectSeq(inst, LAMBDA e : name \in Range(Declared(e).extensions))

\* uninstall_extension that removes the record whatever depends on it
UninstallExtensionForced(name, inst) ==
    IF name \notin Range(inst)
    THEN [raised |-> "ExtensionNotFound", to_cascade |-> <<>>, installed |-> inst]
    ELSE [raised |-> None, to_cascade |-> Dependents(name, inst),
          installed |-> Remove(inst, name)]

\* BaseController.uninstall_extension(name): the record is removed only when
\* nothing installed depends on it
uninstall_extension(name, inst) ==
    IF name \notin Range(inst)
    THEN [raised |-> "ExtensionNotFound", to_cascade |-> <<>>, installed |-> inst]
    ELSE LET to_cascade == Dependents(name, inst) IN
         [raised |-> None, to_cascade |-> to_cascade,
          installed |-> IF to_cascade = <<>> THEN Remove(inst, name) ELSE inst]

\* BaseController.get_extensions()
get_extensions == installed

\* ---------------------------------------------------------------- collaborators

\* the replies a user may type to a yes/no prompt; None is the timeout
Replies == {"yes", "Y", "no", "maybe"}

\* str.lower() on the replies
Lower(text) == IF text = "Y" THEN "y" ELSE text

\* the user replied, with yes or y in any case
Affirmative(reply) == reply # None /\ Lower(reply) \in {"yes", "y"}

\* wait_for_answer with a timeout reported as False
WaitForAnswerOrFalse(reply) ==
    IF reply # None /\ Lower(reply) \in {"yes", "y"} THEN True ELSE False

\* Bot.wait_for_answer(ctx): True for an affirmative reply, False for any other
\* reply, None when no reply arrived within the timeout
wait_for_answer(reply) ==
    IF reply = None THEN None
    ELSE IF Lower(reply) \in {"yes", "y"} THEN True
    ELSE False

\* `answer is not False` in place of `answer is True`
IsNotFalse(answer) == answer # False

\* `answer is True`
IsTrue(answer) == answer = True

\* Bot.wait_for_response(ctx): the reply message itself, None on timeout
wait_for_response(reply) == reply

\* install_package(name) -> exit code
ExitCodes == {0, 1}

\* ---------------------------------------------------------------- authors and commands

Owner == "owner"
\* the accounts that write messages; 'robot' is a bot account
Authors == {"owner", "user", "robot"}
IsBot(author) == author = "robot"
Channels == {"ch1", "ch2"}
Prefixes == {"!", "?"}

BatchCommands == {"install", "update", "uninstall"}

\* ---------------------------------------------------------------- an invocation

\* defaultdict(lambda: []): every list starts empty
EmptyStatus ==
    [installed_extensions |-> <<>>, updated_extensions |-> <<>>,
     uninstalled_extensions |-> <<>>, installed_packages |-> <<>>,
     failed_extensions |-> <<>>, failed_packages |-> <<>>,
     failed_to_install_extensions |-> <<>>]

Idle ==
    [pc |-> "idle", cmd |-> None, author |-> None, channel |-> None, arg |-> None,
     batch |-> <<>>, idx |-> 0, stack |-> <<>>, status |-> EmptyStatus,
     sent |-> <<>>, attempted |-> <<>>, reports |-> <<>>, answers |-> <<>>,
     answer |-> None]

\* no message was received
NoMessage == [author |-> None, channel |-> None, content |-> None]

\* a call of _install / _update / _uninstall; message is the reply that
\* `_extension = await self.bot.wait_for('message', ...)` returned
NewFrame(e) ==
    [ext |-> e, repository |-> None, pc |-> "start", packages |-> <<>>,
     extensions |-> <<>>, to_cascade |-> <<>>, k |-> 0, cur |-> None,
     message |-> NoMessage]

Top(r) == r.stack[Len(r.stack)]
SetTop(r, f) == [r EXCEPT !.stack[Len(r.stack)] = f]
Push(r, f) == [r EXCEPT !.stack = Append(@, f)]
Pop(r) == [r EXCEPT !.stack = SubSeq(@, 1, Len(@) - 1)]

\* await ctx.send(...)
Send(r, kind, what) == [r EXCEPT !.sent = Append(@, <<kind, what>>)]

\* `answer = await self.bot.wait_for_answer(ctx)`, with the log of the yes/no
\* prompts: which prompt, for which name, and whether the reply was an
\* affirmative one
Heard(r, prompt, what, reply) ==
    [r EXCEPT !.answers = Append(@, <<prompt, what, Affirmative(reply)>>),
              !.answer = wait_for_answer(reply)]

\* `answer = await self.bot.wait_for_response(ctx)`, with the same log
HeardResponse(r, prompt, what, reply) ==
    [r EXCEPT !.answers = Append(@, <<prompt, what, Affirmative(reply)>>),
              !.answer = wait_for_response(reply)]

\* the log of the package manager: each package asked for and its exit code
Tried(loop, codes) == [n \in 1..Len(loop.tried) |-> <<loop.tried[n], codes[loop.tried[n]]>>]

\* status[key].append(name)
StatusAppend(r, key, name) == [r EXCEPT !.status[key] = Append(@, name)]
\* status[key] += names
StatusExtend(r, key, names) == [r EXCEPT !.status[key] = @ \o names]

\* the list a frame iterates over while its callee runs
Iterated(r, f) == IF r.cmd = "uninstall" THEN f.to_cascade ELSE f.extensions
SetIterated(r, f, list) ==
    IF r.cmd = "uninstall" THEN [f EXCEPT !.to_cascade = list]
    ELSE [f EXCEPT !.extensions = list]

\* Return where a failed item ends the command's loop
ReturnBreaks(r, value) ==
    LET p == Pop(r) IN
    IF p.stack = <<>>
    THEN IF value = True THEN [p EXCEPT !.pc = "batch"]
         ELSE [p EXCEPT !.pc = "batch", !.idx = Len(p.batch)]
    ELSE LET caller == Top(p) IN
         IF value = True
         THEN SetTop(p, SetIterated(p, caller, Remove(Iterated(p, caller), caller.cur)))
         ELSE p

\* `return value` from the top frame: back in the caller's for loop, where
\* `if return_code is True: list.remove(item)`; at the bottom, back in the
\* command's `for extension in extensions` loop, which ignores the value
Return(r, value) ==
    LET p == Pop(r) IN
    IF p.stack = <<>> THEN [p EXCEPT !.pc = "batch"]
    ELSE LET caller == Top(p) IN
         IF value = True
         THEN SetTop(p, SetIterated(p, caller, Remove(Iterated(p, caller), caller.cur)))
         ELSE p

Running(i, cmd, fpc) ==
    /\ inv[i].pc = "run"
    /\ inv[i].cmd = cmd
    /\ Top(inv[i]).pc = fpc

\* the for loop over a list that its body may shrink: Python keeps an index into
\* the list, so the next item is list[k] of the list as it is now
LoopHasNext(f, list) == f.k < Len(list)
LoopNext(f, list) == [f EXCEPT !.cur = list[f.k + 1], !.k = f.k + 1]

\* `for package in unsatisfied['packages']` with install_package and
\* `unsatisfied['packages'].remove(package)` on exit code 0 (cogs.py 113-119):
\* the list that is left, the packages installed, the packages attempted
RECURSIVE PackageLoop(_, _, _, _, _)
PackageLoop(list, k, codes, ok, tried) ==
    IF k >= Len(list) THEN [left |-> list, ok |-> ok, tried |-> tried]
    ELSE LET package == list[k + 1] IN
         IF codes[package] = 0
         THEN PackageLoop(Remove(list, package), k + 1, codes,
                          Append(ok, package), Append(tried, package))
         ELSE PackageLoop(list, k + 1, codes, ok, Append(tried, package))

RECURSIVE SendEach(_, _, _)
SendEach(r, kind, names) ==
    IF names = <<>> THEN r
    ELSE SendEach(Send(r, kind, Head(names)), kind, Tail(names))

\* ---------------------------------------------------------------- Core.install

\* _extension.startswith('https://')
IsUrl(text) == text \in Urls

\* the messages that may arrive while _install waits for the extension's name
NameContents == {"a", "ghost", "a b"}
HasSpace(text) == text = "a b"

\* extension_check without the comparison of the channels
ExtensionCheckAnyChannel(r, message) ==
    /\ r.author = message.author
    /\ ~HasSpace(message.content)

\* extension_check(message) (cogs.py 67-72)
extension_check(r, message) ==
    /\ r.author = message.author
    /\ r.channel = message.channel
    /\ ~HasSpace(message.content)

\* cogs.py 76-78: a URL item asks for the extension's name
AskName(i) ==
    /\ Running(i, "install", "start")
    /\ IsUrl(Top(inv[i]).ext)
    /\ LET r == inv[i]
           f == Top(r)
       IN inv' = [inv EXCEPT ![i] =
              SetTop(Send(r, "specify_extension_name", f.ext),
                     [f EXCEPT !.repository = f.ext, !.pc = "wait_name"])]
    /\ UNCHANGED <<installed, packages, pkgcalls, published, settings,
                   command_prefix, external, event_loop, users>>

\* cogs.py 79-83: the wait for the name; a message that fails the check is not
\* a reply, and without a reply the item is skipped
NameReply(i) ==
    /\ Running(i, "install", "wait_name")
    /\ LET r == inv[i]
           f == Top(r)
       IN \/ \E a \in Authors \ {"robot"}, ch \in Channels, text \in NameContents :
               LET message == [author |-> a, channel |-> ch, content |-> text] IN
               inv' = [inv EXCEPT ![i] =
                   IF extension_check(r, message)
                   THEN SetTop(r, [f EXCEPT !.message = message,
                                            !.ext = message.content, !.pc = "call"])
                   ELSE r]
          \/ inv' = [inv EXCEPT ![i] =
                 Return(Send(r, "skipping_this_extension", f.ext), False)]
    /\ UNCHANGED <<installed, packages, pkgcalls, published, settings,
                   command_prefix, external, event_loop, users>>

\* InstallRaised without the append to the failed list
InstallRaisedUnrecorded(r, raised) == Return(Send(r, raised, Top(r).ext), False)

\* cogs.py 87-94: except ExtensionAlreadyInstalled / ExtensionNotInIndex
InstallRaised(r, raised) ==
    LET ext == Top(r).ext IN
    Return(StatusAppend(Send(r, raised, ext), "failed_extensions", ext), False)

\* cogs.py 154-157: unsatisfied is None
InstallSucceeded(r) ==
    LET ext == Top(r).ext IN
    Return(StatusAppend(Send(r, "installed_successfully", ext),
                        "installed_extensions", ext), True)

\* AskExtensions that never asks for the dependencies
AskExtensionsNever(r) == Return(r, None)

\* cogs.py 132-134: `if not unsatisfied['packages'] and unsatisfied['extensions']`
\* asks for the dependencies; otherwise the function ends without a return
\* statement and returns None
AskExtensions(r) ==
    LET f == Top(r) IN
    IF f.packages = <<>> /\ f.extensions # <<>>
    THEN SetTop(Send(r, "ask_dependencies", f.ext), [f EXCEPT !.pc = "wait_extensions"])
    ELSE Return(r, None)

\* cogs.py 96-110: the failure message, then the package prompt when packages
\* are missing
InstallUnsatisfied(r, unsatisfied) ==
    LET f == [Top(r) EXCEPT !.packages = unsatisfied.packages,
                            !.extensions = unsatisfied.extensions]
        r1 == SetTop(Send(r, "failed_to_install", f.ext), f)
    IN IF f.packages # <<>>
       THEN SetTop(Send(r1, "ask_packages", f.ext), [f EXCEPT !.pc = "wait_packages"])
       ELSE AskExtensions(r1)

\* cogs.py 84-110, 132-134, 154-157: the call of install_extension
InstallCall(i) ==
    /\ \/ Running(i, "install", "start") /\ ~IsUrl(Top(inv[i]).ext)
       \/ Running(i, "install", "call")
    /\ LET f == Top(inv[i])
           r == Send(inv[i], "installing", f.ext)
           res == install_extension(f.ext, f.repository, installed, packages)
       IN /\ installed' = res.installed
          /\ inv' = [inv EXCEPT ![i] =
                 IF res.raised # None THEN InstallRaised(r, res.raised)
                 ELSE IF IsNone(res.unsatisfied) THEN InstallSucceeded(r)
                 ELSE InstallUnsatisfied(r, res.unsatisfied)]
    /\ UNCHANGED <<packages, pkgcalls, published, settings, command_prefix, external, event_loop, users>>

\* PackagesDeclined with the name appended to the list update uses
PackagesDeclinedOtherList(r) ==
    LET ext == Top(r).ext IN
    Return(StatusAppend(Send(r, "will_not_install_packages", ext),
                        "failed_to_install_extensions", ext), False)

\* cogs.py 126-130: the package prompt was not answered with yes
PackagesDeclined(r) ==
    LET ext == Top(r).ext IN
    Return(StatusAppend(Send(r, "will_not_install_packages", ext),
                        "failed_extensions", ext), False)

\* cogs.py 113-125 after the package loop: what is left failed
PackagesInstalled(r, loop) ==
    LET f == [Top(r) EXCEPT !.packages = loop.left]
        r1 == SetTop(StatusExtend(SendEach(r, "installed_package", loop.ok),
                                  "installed_packages", loop.ok), f)
    IN IF loop.left # <<>>
       THEN Return(StatusExtend(Send(r1, "failed_to_install_packages", f.ext),
                                "failed_packages", loop.left), False)
       ELSE AskExtensions(r1)

\* cogs.py 111-130: the answer to the package prompt
PackagesAnswer(i) ==
    /\ Running(i, "install", "wait_packages")
    /\ \E reply \in Replies \cup {None} :
        IF IsTrue(wait_for_answer(reply))
        THEN \E codes \in [Range(Top(inv[i]).packages) -> ExitCodes] :
               LET loop == PackageLoop(Top(inv[i]).packages, 0, codes, <<>>, <<>>) IN
               /\ packages' = packages \cup Range(loop.ok)
               /\ pkgcalls' = pkgcalls \o Tried(loop, codes)
               /\ inv' = [inv EXCEPT ![i] =
                      PackagesInstalled(Heard(inv[i], "packages", Top(inv[i]).ext, reply), loop)]
        ELSE /\ inv' = [inv EXCEPT ![i] =
                    PackagesDeclined(Heard(inv[i], "packages", Top(inv[i]).ext, reply))]
             /\ UNCHANGED <<packages, pkgcalls>>
    /\ UNCHANGED <<installed, published, settings, command_prefix, external, event_loop, users>>

\* cogs.py 149-152: the dependency prompt was not answered with yes
ExtensionsDeclined(r) ==
    LET ext == Top(r).ext IN
    Return(StatusAppend(Send(r, "will_not_install_dependencies", ext),
                        "failed_extensions", ext), False)

\* cogs.py 135-136, 149-152: the answer to the dependency prompt
ExtensionsAnswer(i) ==
    /\ Running(i, "install", "wait_extensions")
    /\ \E reply \in Replies \cup {None} :
        inv' = [inv EXCEPT ![i] =
            LET r == Heard(inv[i], "extensions", Top(inv[i]).ext, reply) IN
            IF IsTrue(wait_for_answer(reply))
            THEN SetTop(r, [Top(r) EXCEPT !.pc = "loop", !.k = 0])
            ELSE ExtensionsDeclined(r)]
    /\ UNCHANGED <<installed, packages, pkgcalls, published, settings,
                   command_prefix, external, event_loop, users>>

\* cogs.py 142-148: after the loop over the dependencies
ExtensionsInstalled(r) ==
    LET f == Top(r) IN
    IF f.extensions # <<>>
    THEN Return(StatusAppend(Send(r, "failed_to_install_dependencies", f.ext),
                             "failed_extensions", f.ext), False)
    ELSE SetTop(r, NewFrame(f.ext))

\* cogs.py 137-148: `for extension_to_install in unsatisfied['extensions']`,
\* one item per step, and what follows the loop
ExtensionsLoop(i) ==
    /\ Running(i, "install", "loop")
    /\ LET r == inv[i]
           f == Top(r)
       IN IF LoopHasNext(f, f.extensions)
          THEN /\ Len(r.stack) < MaxDepth
               /\ inv' = [inv EXCEPT ![i] =
                      Push(SetTop(r, LoopNext(f, f.extensions)),
                           NewFrame(LoopNext(f, f.extensions).cur))]
          ELSE inv' = [inv EXCEPT ![i] = ExtensionsInstalled(r)]
    /\ UNCHANGED <<installed, packages, pkgcalls, published, settings,
                   command_prefix, external, event_loop, users>>

\* ---------------------------------------------------------------- Core.update

\* cogs.py 199-202: except ExtensionNotFound
UpdateRaised(r, raised) ==
    LET ext == Top(r).ext IN
    Return(StatusAppend(Send(r, raised, ext), "failed_extensions", ext), False)

\* cogs.py 264-267: unsatisfied is None
UpdateSucceeded(r) ==
    LET ext == Top(r).ext IN
    Return(StatusAppend(Send(r, "updated_successfully", ext),
                        "updated_extensions", ext), True)

\* cogs.py 241-243
AskNewExtensions(r) ==
    LET f == Top(r) IN
    IF f.packages = <<>> /\ f.extensions # <<>>
    THEN SetTop(Send(r, "ask_new_dependencies", f.ext), [f EXCEPT !.pc = "wait_extensions"])
    ELSE Return(r, None)

\* cogs.py 204-219
UpdateUnsatisfied(r, unsatisfied) ==
    LET f == [Top(r) EXCEPT !.packages = unsatisfied.packages,
                            !.extensions = unsatisfied.extensions]
        r1 == SetTop(Send(r, "failed_to_update", f.ext), f)
    IN IF f.packages # <<>>
       THEN SetTop(Send(r1, "ask_new_requirements", f.ext), [f EXCEPT !.pc = "wait_packages"])
       ELSE AskNewExtensions(r1)

\* cogs.py 196-219, 241-243, 264-267: the call of update_extension
UpdateCall(i) ==
    /\ Running(i, "update", "start")
    /\ LET f == Top(inv[i])
           r == Send(inv[i], "updating", f.ext)
           res == update_extension(f.ext, installed, packages)
       IN inv' = [inv EXCEPT ![i] =
              IF res.raised # None THEN UpdateRaised(r, res.raised)
              ELSE IF IsNone(res.unsatisfied) THEN UpdateSucceeded(r)
              ELSE UpdateUnsatisfied(r, res.unsatisfied)]
    /\ UNCHANGED <<installed, packages, pkgcalls, published, settings,
                   command_prefix, external, event_loop, users>>

\* cogs.py 235-239: the new-requirements prompt was not answered with yes; the
\* name goes to the 'failed_to_install_extensions' list
NewPackagesDeclined(r) ==
    LET ext == Top(r).ext IN
    Return(StatusAppend(Send(r, "will_not_install_packages", ext),
                        "failed_to_install_extensions", ext), False)

\* cogs.py 222-234 after the package loop
NewPackagesInstalled(r, loop) ==
    LET f == [Top(r) EXCEPT !.packages = loop.left]
        r1 == SetTop(StatusExtend(SendEach(r, "installed_package", loop.ok),
                                  "installed_packages", loop.ok), f)
    IN IF loop.left # <<>>
       THEN Return(StatusExtend(Send(r1, "failed_to_install_packages", f.ext),
                                "failed_packages", loop.left), False)
       ELSE AskNewExtensions(r1)

\* cogs.py 220-239: the answer to the new-requirements prompt
UpdatePackagesAnswer(i) ==
    /\ Running(i, "update", "wait_packages")
    /\ \E reply \in Replies \cup {None} :
        IF IsTrue(wait_for_answer(reply))
        THEN \E codes \in [Range(Top(inv[i]).packages) -> ExitCodes] :
               LET loop == PackageLoop(Top(inv[i]).packages, 0, codes, <<>>, <<>>) IN
               /\ packages' = packages \cup Range(loop.ok)
               /\ pkgcalls' = pkgcalls \o Tried(loop, codes)
               /\ inv' = [inv EXCEPT ![i] =
                      NewPackagesInstalled(Heard(inv[i], "packages", Top(inv[i]).ext, reply),
                                           loop)]
        ELSE /\ inv' = [inv EXCEPT ![i] =
                    NewPackagesDeclined(Heard(inv[i], "packages", Top(inv[i]).ext, reply))]
             /\ UNCHANGED <<packages, pkgcalls>>
    /\ UNCHANGED <<installed, published, settings, command_prefix, external, event_loop, users>>

\* cogs.py 247-262: the loop over the new dependencies returns in its first
\* round: the first dependency is dropped from the list when it is installed
\* by now, and the update is retried only when that leaves the list empty
NewExtensionsChecked(r, exts) ==
    LET f == Top(r)
        first == f.extensions[1]
        left == IF first \in Range(exts) THEN Remove(f.extensions, first) ELSE f.extensions
    IN IF left # <<>>
       THEN Return(StatusAppend(Send(SetTop(r, [f EXCEPT !.extensions = left]),
                                     "failed_to_install_dependencies", f.ext),
                                "failed_extensions", f.ext), False)
       ELSE SetTop(r, NewFrame(f.ext))

\* cogs.py 244-262: the answer to the new-dependencies prompt comes from
\* wait_for_response, which returns the reply message and never True, so the
\* install command is not invoked
UpdateExtensionsAnswer(i) ==
    /\ Running(i, "update", "wait_extensions")
    /\ \E reply \in Replies \cup {None} :
        /\ ~IsTrue(wait_for_response(reply))
        /\ inv' = [inv EXCEPT ![i] =
               NewExtensionsChecked(HeardResponse(inv[i], "extensions", Top(inv[i]).ext, reply),
                                    get_extensions)]
    /\ UNCHANGED <<installed, packages, pkgcalls, published, settings,
                   command_prefix, external, event_loop, users>>

\* ---------------------------------------------------------------- Core.uninstall

\* UninstallRaised without the append to the failed list
UninstallRaisedUnrecorded(r, raised) == Return(Send(r, raised, Top(r).ext), False)

\* cogs.py 309-312: except ExtensionNotFound
UninstallRaised(r, raised) ==
    LET ext == Top(r).ext IN
    Return(StatusAppend(Send(r, raised, ext), "failed_extensions", ext), False)

\* cogs.py 338-341: to_cascade is empty
UninstallSucceeded(r) ==
    LET ext == Top(r).ext IN
    Return(StatusAppend(Send(r, "uninstalled_successfully", ext),
                        "uninstalled_extensions", ext), True)

\* cogs.py 314-318: the cascade set is shown and the prompt is asked
AskCascade(r, to_cascade) ==
    LET f == Top(r) IN
    SetTop(Send(SendEach(r, "would_be_uninstalled_too", to_cascade),
                "proceed_with_uninstallation", f.ext),
           [f EXCEPT !.to_cascade = to_cascade, !.pc = "wait_cascade"])

\* cogs.py 306-318, 338-341: the call of uninstall_extension
UninstallCall(i) ==
    /\ Running(i, "uninstall", "start")
    /\ LET f == Top(inv[i])
           r == Send(inv[i], "uninstalling", f.ext)
           res == uninstall_extension(f.ext, installed)
       IN /\ installed' = res.installed
          /\ inv' = [inv EXCEPT ![i] =
                 IF res.raised # None THEN UninstallRaised(r, res.raised)
                 ELSE IF res.to_cascade # <<>> THEN AskCascade(r, res.to_cascade)
                 ELSE UninstallSucceeded(r)]
    /\ UNCHANGED <<packages, pkgcalls, published, settings, command_prefix, external, event_loop, users>>

\* cogs.py 333-336: the cascade prompt was not answered with yes
CascadeDeclined(r) ==
    LET ext == Top(r).ext IN
    Return(StatusAppend(Send(r, "will_not_uninstall", ext), "failed_extensions", ext),
           False)

\* cogs.py 318-319, 333-336: the answer to the cascade prompt
CascadeAnswer(i) ==
    /\ Running(i, "uninstall", "wait_cascade")
    /\ \E reply \in Replies \cup {None} :
        inv' = [inv EXCEPT ![i] =
            LET r == Heard(inv[i], "cascade", Top(inv[i]).ext, reply) IN
            IF IsTrue(wait_for_answer(reply))
            THEN SetTop(r, [Top(r) EXCEPT !.pc = "loop", !.k = 0])
            ELSE CascadeDeclined(r)]
    /\ UNCHANGED <<installed, packages, pkgcalls, published, settings,
                   command_prefix, external, event_loop, users>>

\* cogs.py 325-332: after the loop over the cascade set
CascadeUninstalled(r) ==
    LET f == Top(r) IN
    IF f.to_cascade # <<>>
    THEN Return(StatusAppend(Send(r, "failed_to_uninstall", f.ext),
                             "failed_extensions", f.ext), False)
    ELSE SetTop(r, NewFrame(f.ext))

\* cogs.py 320-332: `for extension_to_uninstall in to_cascade`, one item per
\* step, and what follows the loop
CascadeLoop(i) ==
    /\ Running(i, "uninstall", "loop")
    /\ LET r == inv[i]
           f == Top(r)
       IN IF LoopHasNext(f, f.to_cascade)
          THEN /\ Len(r.stack) < MaxDepth
               /\ inv' = [inv EXCEPT ![i] =
                      Push(SetTop(r, LoopNext(f, f.to_cascade)),
                           NewFrame(LoopNext(f, f.to_cascade).cur))]
          ELSE inv' = [inv EXCEPT ![i] = CascadeUninstalled(r)]
    /\ UNCHANGED <<installed, packages, pkgcalls, published, settings,
                   command_prefix, external, event_loop, users>>

\* ---------------------------------------------------------------- unexpected failures

\* the registry call the top frame is about to make is past the checks that
\* raise ExtensionAlreadyInstalled, ExtensionNotInIndex or ExtensionNotFound
PastExpectedChecks(r) ==
    LET f == Top(r) IN
    IF r.cmd = "install"
    THEN /\ \/ f.pc = "start" /\ ~IsUrl(f.ext)
            \/ f.pc = "call"
         /\ f.ext \notin Range(installed)
         /\ Resolvable(f.ext, f.repository)
    ELSE f.pc = "start" /\ f.ext \in Range(installed)

\* cogs.py 84, 196, 306: the message sent before the registry call
Announcement(cmd) ==
    IF cmd = "install" THEN "installing"
    ELSE IF cmd = "update" THEN "updating"
    ELSE "uninstalling"

\* cogs.py 84-94, 196-202, 306-312: the try around the registry call catches
\* only the exceptions named; any other exception of the call (the download or
\* the file system failing) leaves every _install / _update / _uninstall frame
\* and then the command, whose code after the loop (the completion message
\* and the restart prompt, cogs.py 162-183) does not run
UnexpectedFailure(i) ==
    /\ inv[i].pc = "run"
    /\ inv[i].cmd \in BatchCommands
    /\ PastExpectedChecks(inv[i])
    /\ inv' = [inv EXCEPT ![i] =
           [Send(inv[i], Announcement(inv[i].cmd), Top(inv[i]).ext)
               EXCEPT !.pc = "failed", !.stack = <<>>]]
    /\ UNCHANGED <<installed, packages, pkgcalls, published, settings,
                   command_prefix, external, event_loop, users>>

\* ---------------------------------------------------------------- the batch commands

\* isinstance(messageable, discord.abc.Messageable) (controllers.py 72): a
\* channel and a user are messageable, a guild is not
IsMessageable(target) == target \in Channels \cup Authors

\* messageable.id (controllers.py 73)
IdOf(target) ==
    CASE target = "ch1" -> "id1"
      [] target = "ch2" -> "id2"
      [] target = "owner" -> "id3"
      [] target = "user" -> "id4"
      [] target = "robot" -> "id5"

\* CoreController.set_restarted_from / restart (controllers.py 68-85)
CoreRestart(i) ==
    /\ settings' = [settings EXCEPT !.restarted_from = IdOf(inv[i].channel)]
    /\ published' = Append(published, "restart")

\* the key of the status list that holds the names that succeeded
SucceededKey(cmd) ==
    IF cmd = "install" THEN "installed_extensions"
    ELSE IF cmd = "update" THEN "updated_extensions"
    ELSE "uninstalled_extensions"

\* the lists the completion message shows (cogs.py 162-174, 272-284, 346-352)
ReportOf(r) ==
    [succeeded |-> r.status[SucceededKey(r.cmd)],
     installed_packages |-> IF r.cmd = "uninstall" THEN <<>> ELSE r.status.installed_packages,
     failed |-> r.status.failed_extensions,
     failed_packages |-> IF r.cmd = "uninstall" THEN <<>> ELSE r.status.failed_packages]

\* cogs.py 159-160, 269-270, 343-344: the next round of
\* `for extension in extensions: await _install(extension)`
BatchNext(i) ==
    /\ inv[i].pc = "batch"
    /\ inv[i].idx < Len(inv[i].batch)
    /\ LET item == inv[i].batch[inv[i].idx + 1] IN
       inv' = [inv EXCEPT ![i] =
           [@ EXCEPT !.pc = "run", !.idx = @ + 1, !.stack = <<NewFrame(item)>>,
                     !.attempted = Append(@, item)]]
    /\ UNCHANGED <<installed, packages, pkgcalls, published, settings,
                   command_prefix, external, event_loop, users>>

\* Complete with the restart prompt asked whatever the lists hold
CompleteAlwaysAsks(i) ==
    /\ inv[i].pc = "batch"
    /\ inv[i].idx = Len(inv[i].batch)
    /\ LET r == [Send(inv[i], "completed", inv[i].cmd)
                    EXCEPT !.reports = Append(@, ReportOf(inv[i]))]
       IN inv' = [inv EXCEPT ![i] =
              [Send(r, "ask_restart", r.cmd) EXCEPT !.pc = "wait_restart"]]
    /\ UNCHANGED <<installed, packages, pkgcalls, published, settings,
                   command_prefix, external, event_loop, users>>

\* cogs.py 162-179, 272-289, 346-357: the completion message, and the restart
\* prompt when something succeeded
Complete(i) ==
    /\ inv[i].pc = "batch"
    /\ inv[i].idx = Len(inv[i].batch)
    /\ LET r == [Send(inv[i], "completed", inv[i].cmd)
                    EXCEPT !.reports = Append(@, ReportOf(inv[i]))]
       IN inv' = [inv EXCEPT ![i] =
              IF r.status[SucceededKey(r.cmd)] # <<>>
              THEN [Send(r, "ask_restart", r.cmd) EXCEPT !.pc = "wait_restart"]
              ELSE [r EXCEPT !.pc = "done"]]
    /\ UNCHANGED <<installed, packages, pkgcalls, published, settings,
                   command_prefix, external, event_loop, users>>

\* cogs.py 180-183, 290-293, 358-361: the answer to the restart prompt; update
\* reads it with wait_for_response
RestartAnswer(i) ==
    /\ inv[i].pc = "wait_restart"
    /\ \E reply \in Replies \cup {None} :
        LET r == IF inv[i].cmd = "update"
                 THEN HeardResponse(inv[i], "restart", inv[i].cmd, reply)
                 ELSE Heard(inv[i], "restart", inv[i].cmd, reply)
        IN IF IsTrue(r.answer)
           THEN /\ inv' = [inv EXCEPT ![i] =
                       [Send(r, "be_right_back", inv[i].cmd) EXCEPT !.pc = "done"]]
                /\ CoreRestart(i)
           ELSE /\ inv' = [inv EXCEPT ![i] = [r EXCEPT !.pc = "done"]]
                /\ UNCHANGED <<settings, published>>
    /\ UNCHANGED <<installed, packages, pkgcalls, command_prefix, external, event_loop, users>>

\* ---------------------------------------------------------------- the other commands

Handler(i, cmd) == inv[i].pc = "handler" /\ inv[i].cmd = cmd
Finish(r) == [r EXCEPT !.pc = "done"]
\* an exception leaves the handler: the command fails
Fail(r) == [r EXCEPT !.pc = "failed"]

\* str.strip() on the arguments used here
Strip(text) == IF text = " " THEN "" ELSE text

\* cogs.py 26-55: eval runs the given code
evaluate(i) ==
    /\ Handler(i, "eval")
    /\ external' = Append(external, <<"eval", inv[i].arg>>)
    /\ inv' = [inv EXCEPT ![i] = Finish(Send(inv[i], "eval_result", inv[i].arg))]
    /\ UNCHANGED <<installed, packages, pkgcalls, published, settings, command_prefix,
                   event_loop, users>>

\* cogs.py 363-373
set_name(i) ==
    /\ Handler(i, "set_name")
    /\ IF Strip(inv[i].arg) # ""
       THEN /\ external' = Append(external, <<"user.edit", Strip(inv[i].arg)>>)
            /\ inv' = [inv EXCEPT ![i] = Finish(inv[i])]
       ELSE /\ inv' = [inv EXCEPT ![i] = Finish(Send(inv[i], "command_help", "set_name"))]
            /\ UNCHANGED external
    /\ UNCHANGED <<installed, packages, pkgcalls, published, settings, command_prefix,
                   event_loop, users>>

\* cogs.py 375-389: editing the nickname may be forbidden
set_nickname(i) ==
    /\ Handler(i, "set_nickname")
    /\ \/ /\ external' = Append(external, <<"me.edit", Strip(inv[i].arg)>>)
          /\ inv' = [inv EXCEPT ![i] = Finish(Send(inv[i], "done", "set_nickname"))]
       \/ /\ inv' = [inv EXCEPT ![i] = Finish(Send(inv[i], "lack_permission", "set_nickname"))]
          /\ UNCHANGED external
    /\ UNCHANGED <<installed, packages, pkgcalls, published, settings, command_prefix,
                   event_loop, users>>

\* cogs.py 391-432: set_game and set_status change the presence and answer
set_presence(i) ==
    /\ \/ Handler(i, "set_game")
       \/ Handler(i, "set_status")
    /\ external' = Append(external, <<"change_presence", inv[i].arg>>)
    /\ inv' = [inv EXCEPT ![i] = Finish(Send(inv[i], inv[i].cmd, inv[i].arg))]
    /\ UNCHANGED <<installed, packages, pkgcalls, published, settings, command_prefix,
                   event_loop, users>>

\* cogs.py 434-457: arg is "both" (streamer and title), "streamer" (no title)
\* or "" (neither)
set_stream(i) ==
    /\ Handler(i, "set_stream")
    /\ IF inv[i].arg = "streamer"
       THEN /\ inv' = [inv EXCEPT ![i] = Finish(Send(inv[i], "command_help", "set_stream"))]
            /\ UNCHANGED external
       ELSE /\ external' = Append(external, <<"change_presence", inv[i].arg>>)
            /\ inv' = [inv EXCEPT ![i] = Finish(Send(inv[i], "done", "set_stream"))]
    /\ UNCHANGED <<installed, packages, pkgcalls, published, settings, command_prefix,
                   event_loop, users>>

\* cogs.py 459-473 with controllers.py 194-197: CoreController.set_avatar is
\* declared without self, so the call raises TypeError, which the handler does
\* not catch
set_avatar(i) ==
    /\ Handler(i, "set_avatar")
    /\ inv' = [inv EXCEPT ![i] = Fail(inv[i])]
    /\ UNCHANGED <<installed, packages, pkgcalls, published, settings,
                   command_prefix, external, event_loop, users>>

\* len(token) > 50
IsLongToken(token) == token = "long-token"

\* cogs.py 475-486
set_token(i) ==
    /\ Handler(i, "set_token")
    /\ IF IsLongToken(inv[i].arg)
       THEN /\ settings' = [settings EXCEPT !.token = inv[i].arg]
            /\ inv' = [inv EXCEPT ![i] = Finish(Send(inv[i], "token_set", ""))]
       ELSE /\ inv' = [inv EXCEPT ![i] = Finish(Send(inv[i], "invalid_token", ""))]
            /\ UNCHANGED settings
    /\ UNCHANGED <<installed, packages, pkgcalls, published, command_prefix, external, event_loop, users>>

\* cogs.py 488-511 with controllers.py 157-192: set_description, set_repository
\* and set_officialinvite store the value and answer
SettingKey(cmd) ==
    IF cmd = "set_description" THEN "description"
    ELSE IF cmd = "set_repository" THEN "repository"
    ELSE "official_invite"

set_setting(i) ==
    /\ \/ Handler(i, "set_description")
       \/ Handler(i, "set_repository")
       \/ Handler(i, "set_officialinvite")
    /\ settings' = [settings EXCEPT ![SettingKey(inv[i].cmd)] = inv[i].arg]
    /\ inv' = [inv EXCEPT ![i] = Finish(Send(inv[i], inv[i].cmd, inv[i].arg))]
    /\ UNCHANGED <<installed, packages, pkgcalls, published, command_prefix, external, event_loop, users>>

\* the prefix arguments written with surrounding double quotes
Quoted == {"\"?\""}
\* prefix[1:len(prefix) - 1] on a quoted argument (cogs.py 518-519)
Unquote(prefix) == IF prefix = "\"?\"" THEN "?" ELSE prefix

\* CoreController.get_prefixes (controllers.py 92-95)
get_prefixes == settings.prefixes

\* CoreAddPrefix without the membership test
CoreAddPrefixUnchecked(prefix, prefixes) ==
    [raised |-> None, prefixes |-> Append(prefixes, prefix)]

\* CoreController.add_prefix (controllers.py 112-127)
CoreAddPrefix(prefix, prefixes) ==
    IF prefix \in Range(prefixes)
    THEN [raised |-> "PrefixAlreadyExists", prefixes |-> prefixes]
    ELSE [raised |-> None, prefixes |-> Append(prefixes, prefix)]

\* CoreController.remove_prefix (controllers.py 129-144)
CoreRemovePrefix(prefix, prefixes) ==
    IF prefix \notin Range(prefixes)
    THEN [raised |-> "PrefixNotFound", prefixes |-> prefixes]
    ELSE [raised |-> None, prefixes |-> Remove(prefixes, prefix)]

\* cogs.py 513-527
add_prefix(i) ==
    /\ Handler(i, "add_prefix")
    /\ LET prefix == IF inv[i].arg \in Quoted THEN Unquote(inv[i].arg) ELSE inv[i].arg
           res == CoreAddPrefix(prefix, get_prefixes)
       IN IF res.raised = None
          THEN /\ settings' = [settings EXCEPT !.prefixes = res.prefixes]
               /\ command_prefix' = res.prefixes
               /\ inv' = [inv EXCEPT ![i] = Finish(Send(inv[i], "prefix_added", prefix))]
          ELSE /\ inv' = [inv EXCEPT ![i] = Finish(Send(inv[i], res.raised, prefix))]
               /\ UNCHANGED <<settings, command_prefix>>
    /\ UNCHANGED <<installed, packages, pkgcalls, published, external, event_loop, users>>

\* remove_prefix that leaves Bot.command_prefix as it was
RemovePrefixStale(i) ==
    /\ Handler(i, "remove_prefix")
    /\ LET prefix == inv[i].arg
           res == CoreRemovePrefix(prefix, get_prefixes)
       IN IF res.raised = None
          THEN /\ settings' = [settings EXCEPT !.prefixes = res.prefixes]
               /\ UNCHANGED command_prefix
               /\ inv' = [inv EXCEPT ![i] = Finish(Send(inv[i], "prefix_removed", prefix))]
          ELSE /\ inv' = [inv EXCEPT ![i] = Finish(Send(inv[i], res.raised, prefix))]
               /\ UNCHANGED <<settings, command_prefix>>
    /\ UNCHANGED <<installed, packages, pkgcalls, published, external, event_loop, users>>

\* cogs.py 529-539
remove_prefix(i) ==
    /\ Handler(i, "remove_prefix")
    /\ LET prefix == inv[i].arg
           res == CoreRemovePrefix(prefix, get_prefixes)
       IN IF res.raised = None
          THEN /\ settings' = [settings EXCEPT !.prefixes = res.prefixes]
               /\ command_prefix' = res.prefixes
               /\ inv' = [inv EXCEPT ![i] = Finish(Send(inv[i], "prefix_removed", prefix))]
          ELSE /\ inv' = [inv EXCEPT ![i] = Finish(Send(inv[i], res.raised, prefix))]
               /\ UNCHANGED <<settings, command_prefix>>
    /\ UNCHANGED <<installed, packages, pkgcalls, published, external, event_loop, users>>

\* cogs.py 541-550: prefixes[0] of an empty list raises IndexError
prefixes(i) ==
    /\ Handler(i, "prefixes")
    /\ inv' = [inv EXCEPT ![i] =
           IF Len(get_prefixes) > 1 THEN Finish(Send(inv[i], "my_prefixes_are", ""))
           ELSE IF Len(get_prefixes) = 1
                THEN Finish(Send(inv[i], "my_prefix_is", get_prefixes[1]))
           ELSE Fail(inv[i])]
    /\ UNCHANGED <<installed, packages, pkgcalls, published, settings,
                   command_prefix, external, event_loop, users>>

\* cogs.py 552-560, 669-687: ping, about and version only answer
answer_only(i) ==
    /\ \/ Handler(i, "ping")
       \/ Handler(i, "about")
       \/ Handler(i, "version")
    /\ inv' = [inv EXCEPT ![i] = Finish(Send(inv[i], inv[i].cmd, ""))]
    /\ UNCHANGED <<installed, packages, pkgcalls, published, settings,
                   command_prefix, external, event_loop, users>>

\* cogs.py 562-569 with controllers.py 87-90
shutdown(i) ==
    /\ Handler(i, "shutdown")
    /\ published' = Append(published, "shutdown")
    /\ inv' = [inv EXCEPT ![i] = Finish(Send(inv[i], "goodbye", ""))]
    /\ UNCHANGED <<installed, packages, pkgcalls, settings, command_prefix, external, event_loop, users>>

\* cogs.py 571-582: in a guild channel restarted_from is the channel
restart(i) ==
    /\ Handler(i, "restart")
    /\ CoreRestart(i)
    /\ inv' = [inv EXCEPT ![i] = Finish(Send(inv[i], "be_right_back", "restart"))]
    /\ UNCHANGED <<installed, packages, pkgcalls, command_prefix, external, event_loop, users>>

\* cogs.py 598-604: leave asks for confirmation
leave(i) ==
    /\ Handler(i, "leave")
    /\ inv' = [inv EXCEPT ![i] = [Send(inv[i], "ask_leave", "") EXCEPT !.pc = "wait_leave"]]
    /\ UNCHANGED <<installed, packages, pkgcalls, published, settings,
                   command_prefix, external, event_loop, users>>

\* cogs.py 605-611: the answer to the leave prompt
LeaveAnswer(i) ==
    /\ inv[i].pc = "wait_leave"
    /\ \E reply \in Replies \cup {None} :
        IF IsTrue(wait_for_answer(reply))
        THEN /\ external' = Append(external, <<"guild.leave", inv[i].channel>>)
             /\ inv' = [inv EXCEPT ![i] =
                    Finish(Send(Heard(inv[i], "leave", "", reply), "bye", ""))]
        ELSE /\ inv' = [inv EXCEPT ![i] =
                    Finish(Send(Heard(inv[i], "leave", "", reply), "stay_here", ""))]
             /\ UNCHANGED external
    /\ UNCHANGED <<installed, packages, pkgcalls, published, settings, command_prefix,
                   event_loop, users>>

\* the guilds the bot is in
Guilds == <<"g1", "g2">>
\* guild_list: the keys are the integers enumerate() gives (cogs.py 620-623)
GuildKeys == 0..(Len(Guilds) - 1)
\* what the owner may type after the list
ServerReplies == {"0", "1", "7", "bye"}
\* `msg in guild_list.keys()`: msg is the reply's text, a str, and no str is
\* equal to an int key
InGuildKeys(text) == FALSE

\* cogs.py 613-627: servers lists the guilds
servers(i) ==
    /\ Handler(i, "servers")
    /\ inv' = [inv EXCEPT ![i] =
           [SendEach(inv[i], "server", Guilds) EXCEPT !.pc = "wait_servers"]]
    /\ UNCHANGED <<installed, packages, pkgcalls, published, settings,
                   command_prefix, external, event_loop, users>>

\* ctx.guild: the guild of the channel the command was sent in
GuildOf(channel) == IF channel = "ch1" THEN "g1" ELSE "g2"

\* cogs.py 584-588: leave_confirmation asks its question
AskLeaveGuild(r, guild) ==
    [Send(r, "ask_leave_guild", guild) EXCEPT !.pc = "wait_leave_guild", !.arg = guild]

\* cogs.py 589-596: leave_confirmation after its question: whether the guild is
\* left, and the invocation back in the loop of servers
leave_confirmation(r, guild, reply) ==
    LET r1 == Heard(r, "leave_guild", guild, reply) IN
    IF r1.answer = None \/ r1.answer = False
    THEN [leaves |-> FALSE,
          inv |-> [Send(r1, "stay_then", guild) EXCEPT !.pc = "wait_servers"]]
    ELSE [leaves |-> TRUE,
          inv |-> [(IF guild # GuildOf(r.channel) THEN Send(r1, "done", guild) ELSE r1)
                      EXCEPT !.pc = "wait_servers"]]

\* cogs.py 628-639 and 584-596: a reply that is a key starts leave_confirmation
\* and the loop waits again; any other reply, or none, ends the loop
ServersReply(i) ==
    /\ inv[i].pc \in {"wait_servers", "wait_leave_guild"}
    /\ IF inv[i].pc = "wait_servers"
       THEN /\ \E reply \in ServerReplies \cup {None} :
                LET r == [inv[i] EXCEPT !.answer = Strip(wait_for_response(reply))] IN
                inv' = [inv EXCEPT ![i] =
                    IF r.answer # None /\ InGuildKeys(r.answer)
                    THEN AskLeaveGuild(r, r.answer)
                    ELSE Finish(Send(r, "reinvoke", ""))]
            /\ UNCHANGED external
       ELSE \E reply \in Replies \cup {None} :
                LET out == leave_confirmation(inv[i], inv[i].arg, reply) IN
                /\ inv' = [inv EXCEPT ![i] = out.inv]
                /\ external' = IF out.leaves
                               THEN Append(external, <<"guild.leave", inv[i].arg>>)
                               ELSE external
    /\ UNCHANGED <<installed, packages, pkgcalls, published, settings, command_prefix,
                   event_loop, users>>

\* ---------------------------------------------------------------- Bot.wait_for_choice

\* the lists of choices a caller may pass, the empty list included
ChoiceLists == {<<>>} \cup SeqsUpTo({"x", "y"}, MaxChoices)

\* the contents of the messages that may arrive while a choice is awaited: a
\* number, a number followed by text, text, and the empty content of a message
\* that only carries an attachment
ChoiceContents == {"0", "1", "2", "3 please", "9", "abc", ""}

Digits == {"0", "1", "2", "3", "9"}

\* message.content[0]
FirstChar(content) ==
    CASE content = "3 please" -> "3"
      [] content = "abc" -> "a"
      [] OTHER -> content

\* int() of one digit
DigitValue(char) ==
    CASE char = "0" -> 0
      [] char = "1" -> 1
      [] char = "2" -> 2
      [] char = "3" -> 3
      [] OTHER -> 9

\* int(message.content[0]): indexing the empty string raises IndexError, and
\* int() of a character that is no digit raises ValueError
IntOfFirstChar(content) ==
    IF content = "" THEN [raised |-> "IndexError", value |-> 0]
    ELSE IF FirstChar(content) \notin Digits THEN [raised |-> "ValueError", value |-> 0]
    ELSE [raised |-> None, value |-> DigitValue(FirstChar(content))]

\* choice_check(message) (bot.py 187-188):
\* `int(message.content[0]) - 1 in range(len(choices))`
choice_check(content, choices) ==
    LET number == IntOfFirstChar(content) IN
    IF number.raised # None THEN [raised |-> number.raised, result |-> FALSE]
    ELSE [raised |-> None, result |-> (number.value - 1) \in 0..(Len(choices) - 1)]

\* range(choices) (bot.py 190): choices is the list, and range() of a list
\* raises TypeError
RangeOfList(choices) == "TypeError"

\* a cog calls wait_for_choice(author, channel, message, choices), or a message
\* is handed to choice_check while a choice is awaited
ChoiceCall(i) ==
    /\ inv[i].pc = "idle"
    /\ \E author \in Authors, channel \in Channels, choices \in ChoiceLists :
           \/ inv' = [inv EXCEPT ![i] =
                  [@ EXCEPT !.pc = "handler", !.cmd = "wait_for_choice", !.author = author,
                            !.channel = channel,
                            !.arg = [choices |-> choices, content |-> ""]]]
           \/ \E content \in ChoiceContents :
                  inv' = [inv EXCEPT ![i] =
                      [@ EXCEPT !.pc = "handler", !.cmd = "choice_check", !.author = author,
                                !.channel = channel,
                                !.arg = [choices |-> choices, content |-> content]]]
    /\ UNCHANGED <<installed, packages, pkgcalls, published, settings,
                   command_prefix, external, event_loop, users>>

\* bot.py 183-197: the `for i in range(choices)` statement raises before the
\* prompt is sent, so the wait is not reached
wait_for_choice(i) ==
    /\ Handler(i, "wait_for_choice")
    /\ inv' = [inv EXCEPT ![i] =
           [Fail(inv[i]) EXCEPT !.answer = RangeOfList(inv[i].arg.choices)]]
    /\ UNCHANGED <<installed, packages, pkgcalls, published, settings,
                   command_prefix, external, event_loop, users>>

\* bot.py 187-188: choice_check applied to one message
ChoiceChecked(i) ==
    /\ Handler(i, "choice_check")
    /\ LET checked == choice_check(inv[i].arg.content, inv[i].arg.choices) IN
       inv' = [inv EXCEPT ![i] =
           IF checked.raised # None THEN [Fail(inv[i]) EXCEPT !.answer = checked.raised]
           ELSE [Finish(inv[i]) EXCEPT !.answer = IF checked.result THEN True ELSE False]]
    /\ UNCHANGED <<installed, packages, pkgcalls, published, settings,
                   command_prefix, external, event_loop, users>>

\* ---------------------------------------------------------------- dispatch

\* the commands of the Core cog
Commands ==
    {"eval", "install", "update", "uninstall", "set_name", "set_nickname", "set_game",
     "set_status", "set_stream", "set_avatar", "set_token", "set_description",
     "set_repository", "set_officialinvite", "add_prefix", "remove_prefix", "prefixes",
     "ping", "shutdown", "restart", "leave", "servers", "contact", "about", "version"}

\* OwnerOnly with the decorator missing on shutdown
OwnerOnlyButShutdown ==
    {"eval", "install", "update", "uninstall", "set_name", "set_nickname", "set_game",
     "set_status", "set_stream", "set_avatar", "set_token", "set_description",
     "set_repository", "set_officialinvite", "add_prefix", "remove_prefix", "prefixes",
     "restart", "leave", "servers"}

\* the commands decorated with @commands.is_owner()
OwnerOnly ==
    {"eval", "install", "update", "uninstall", "set_name", "set_nickname", "set_game",
     "set_status", "set_stream", "set_avatar", "set_token", "set_description",
     "set_repository", "set_officialinvite", "add_prefix", "remove_prefix", "prefixes",
     "shutdown", "restart", "leave", "servers"}

\* @commands.command(enabled=False) (cogs.py 641)
Disabled == {"contact"}

\* the argument texts tried for each command
ArgsOf(cmd) ==
    CASE cmd \in BatchCommands -> SeqsUpTo(Items, MaxBatch)
      [] cmd \in {"add_prefix", "remove_prefix"} -> {"!", "?", "\"?\""}
      [] cmd = "set_name" -> {"Dwarf", " "}
      [] cmd = "set_stream" -> {"both", "streamer", ""}
      [] cmd = "set_token" -> {"short", "long-token"}
      [] OTHER -> {"v"}

\* the global check accepts everyone
UserAllowedAll(author) == TRUE

\* Bot.user_allowed (bot.py 153-163), the global check added in __init__
user_allowed(author) ==
    IF IsBot(author) THEN FALSE
    ELSE IF settings.owner = author THEN TRUE
    ELSE TRUE

\* the check of @commands.is_owner()
is_owner(author) == author = settings.owner

\* whether the command's own checks let the author in
CommandAllowed(cmd, author) == cmd \in OwnerOnly => is_owner(author)

\* a message that starts with one of the prefixes and names a command: the
\* global check, then the command's checks, then the handler
Invoke(r, author, channel, cmd, arg) ==
    LET ctx == [r EXCEPT !.cmd = cmd, !.author = author, !.channel = channel] IN
    IF cmd \in Disabled \/ ~user_allowed(author) \/ ~CommandAllowed(cmd, author)
    THEN [ctx EXCEPT !.pc = "rejected"]
    ELSE IF cmd \in BatchCommands
    THEN [ctx EXCEPT !.pc = "batch", !.batch = arg]
    ELSE [ctx EXCEPT !.pc = "handler", !.arg = arg]

DispatchOf(i, cmds) ==
    /\ inv[i].pc = "idle"
    /\ \E author \in Authors, channel \in Channels, prefix \in Prefixes, cmd \in cmds :
        \E arg \in ArgsOf(cmd) :
            /\ prefix \in Range(command_prefix)
            /\ inv' = [inv EXCEPT ![i] = Invoke(inv[i], author, channel, cmd, arg)]
    /\ UNCHANGED <<installed, packages, pkgcalls, published, settings,
                   command_prefix, external, event_loop, users>>

Dispatch(i) == DispatchOf(i, Commands)

\* the commands that read and change the prefix list
PrefixCommands == {"add_prefix", "remove_prefix", "prefixes"}

DispatchPrefixCommand(i) == DispatchOf(i, PrefixCommands)

\* the command ended (completed, failed or rejected): the bot handles the next
\* message
NextCommand(i) ==
    /\ inv[i].pc \in {"done", "failed", "rejected"}
    /\ inv' = [inv EXCEPT ![i] = Idle]
    /\ UNCHANGED <<installed, packages, pkgcalls, published, settings,
                   command_prefix, external, event_loop, users>>

\* ---------------------------------------------------------------- the specification

Invocations == {"i1"}

\* the registry before the command: empty; the chain a <- b <- c; a with the two
\* dependents b and d; and extensions whose newer versions declare dependencies
\* that are not met
InitRegistry ==
    {[installed |-> <<>>, packages |-> {}],
     [installed |-> <<"a", "b", "c">>, packages |-> {}],
     [installed |-> <<"a", "weather", "b", "d">>, packages |-> {"requests-lib"}],
     [installed |-> <<"weather", "b", "multi">>, packages |-> {}]}

InitSettings ==
    [prefixes |-> <<"!">>, owner |-> Owner, description |-> "v0", repository |-> "v0",
     official_invite |-> "v0", restarted_from |-> None,
     is_supposed_to_be_running |-> TRUE, token |-> "long-token"]

Init ==
    /\ \E reg \in InitRegistry :
        /\ installed = reg.installed
        /\ packages = reg.packages
    /\ pkgcalls = <<>>
    /\ published = <<>>
    /\ settings = InitSettings
    /\ command_prefix = InitSettings.prefixes
    /\ external = <<>>
    /\ event_loop = "running"
    /\ users = {}
    /\ inv = [i \in Invocations |-> Idle]

Step(i) ==
    \/ Dispatch(i)
    \/ BatchNext(i)
    \/ Complete(i)
    \/ RestartAnswer(i)
    \/ AskName(i)
    \/ NameReply(i)
    \/ InstallCall(i)
    \/ PackagesAnswer(i)
    \/ ExtensionsAnswer(i)
    \/ ExtensionsLoop(i)
    \/ UpdateCall(i)
    \/ UpdatePackagesAnswer(i)
    \/ UpdateExtensionsAnswer(i)
    \/ UninstallCall(i)
    \/ CascadeAnswer(i)
    \/ CascadeLoop(i)
    \/ UnexpectedFailure(i)
    \/ evaluate(i)
    \/ set_name(i)
    \/ set_nickname(i)
    \/ set_presence(i)
    \/ set_stream(i)
    \/ set_avatar(i)
    \/ set_token(i)
    \/ set_setting(i)
    \/ add_prefix(i)
    \/ remove_prefix(i)
    \/ prefixes(i)
    \/ answer_only(i)
    \/ shutdown(i)
    \/ restart(i)
    \/ leave(i)
    \/ LeaveAnswer(i)
    \/ servers(i)
    \/ ServersReply(i)

Next == \E i \in Invocations : Step(i)

Spec == Init /\ [][Next]_vars

\* any sequence of add_prefix, remove_prefix and prefixes commands, by any
\* author, after setup has stored the first prefix
PrefixStep(i) ==
    \/ DispatchPrefixCommand(i)
    \/ add_prefix(i)
    \/ remove_prefix(i)
    \/ prefixes(i)
    \/ NextCommand(i)

PrefixNext == \E i \in Invocations : PrefixStep(i)

PrefixSpec == Init /\ [][PrefixNext]_vars

\* the calls of Bot.wait_for_choice and of its check
ChoiceStep(i) ==
    \/ ChoiceCall(i)
    \/ wait_for_choice(i)
    \/ ChoiceChecked(i)

ChoiceNext == \E i \in Invocations : ChoiceStep(i)

ChoiceSpec == Init /\ [][ChoiceNext]_vars

\* ---------------------------------------------------------------- concurrent invocations

\* the command invocations that may be in flight at once: every message that
\* names a command is handled in a task of its own
Tasks == {"i1", "i2"}

\* the invocation is suspended in a wait for a reply
Suspended(r) ==
    \/ r.pc \in {"wait_restart", "wait_leave", "wait_servers", "wait_leave_guild"}
    \/ /\ r.pc = "run"
       /\ Top(r).pc \in {"wait_name", "wait_packages", "wait_extensions", "wait_cascade"}

\* the wait of the invocation listens to this author in this channel
Listens(r, author, channel) == Suspended(r) /\ r.author = author /\ r.channel = channel

\* a message of the author in the channel that is not an affirmative reply
\* reaches an install that is suspended in a yes/no wait: the wait returns False
\* and the install goes on as after any other 'no'
Declined(r, text) ==
    IF r.pc = "wait_restart"
    THEN [Heard(r, "restart", r.cmd, text) EXCEPT !.pc = "done"]
    ELSE IF Top(r).pc = "wait_packages"
    THEN PackagesDeclined(Heard(r, "packages", Top(r).ext, text))
    ELSE ExtensionsDeclined(Heard(r, "extensions", Top(r).ext, text))

\* what a message that names a command is to the other invocations: the reply
\* that the waits for its author in its channel are suspended on
Overheard(r, author, channel, text) ==
    IF Listens(r, author, channel) THEN Declined(r, text) ELSE r

\* the commands and the batches that are invoked concurrently
ConcCommands == {"install", "ping"}
ConcBatches == {<<"a">>, <<"weather">>, <<"weather", "multi">>}
ConcArgs(cmd) == IF cmd = "install" THEN ConcBatches ELSE {"v"}

\* ConcDispatch that handles no message while an invocation is suspended
ConcDispatchSerial(i) ==
    /\ inv[i].pc = "idle"
    /\ \A j \in Tasks : ~Suspended(inv[j])
    /\ \E author \in Authors \ {"robot"}, channel \in Channels, cmd \in ConcCommands :
        \E arg \in ConcArgs(cmd), prefix \in Range(command_prefix) :
            inv' = [j \in Tasks |->
                       IF j = i THEN Invoke(inv[i], author, channel, cmd, arg)
                       ELSE Overheard(inv[j], author, channel, cmd)]
    /\ UNCHANGED <<installed, packages, pkgcalls, published, settings,
                   command_prefix, external, event_loop, users>>

\* a message that names a command arrives while other invocations may be in
\* flight: it starts an invocation of its own, whatever the others are doing
ConcDispatch(i) ==
    /\ inv[i].pc = "idle"
    /\ \E author \in Authors \ {"robot"}, channel \in Channels, cmd \in ConcCommands :
        \E arg \in ConcArgs(cmd), prefix \in Range(command_prefix) :
            inv' = [j \in Tasks |->
                       IF j = i THEN Invoke(inv[i], author, channel, cmd, arg)
                       ELSE Overheard(inv[j], author, channel, cmd)]
    /\ UNCHANGED <<installed, packages, pkgcalls, published, settings,
                   command_prefix, external, event_loop, users>>

ConcInit ==
    /\ \E reg \in InitRegistry :
        /\ installed = reg.installed
        /\ packages = reg.packages
    /\ pkgcalls = <<>>
    /\ published = <<>>
    /\ settings = InitSettings
    /\ command_prefix = InitSettings.prefixes
    /\ external = <<>>
    /\ event_loop = "running"
    /\ users = {}
    /\ inv = [i \in Tasks |-> Idle]

\* the steps of one invocation; the steps of the invocations interleave at
\* their suspension points
ConcStep(i) ==
    \/ ConcDispatch(i)
    \/ BatchNext(i)
    \/ InstallCall(i)
    \/ PackagesAnswer(i)
    \/ Complete(i)
    \/ RestartAnswer(i)
    \/ answer_only(i)

ConcNext == \E i \in Tasks : ConcStep(i)

ConcSpec == ConcInit /\ [][ConcNext]_vars

\* ---------------------------------------------------------------- Bot.stop_loop

\* the task of the invocation has not ended
InFlight(r) == r.pc \notin {"idle", "done", "failed", "rejected", "cancelled"}

\* asyncio.Task.all_tasks(loop=self.loop): the tasks that are not done (bot.py 112)
Pending == {i \in Tasks : InFlight(inv[i])}

\* Task.cancel(): CancelledError is to be thrown into the coroutine at the
\* await it is suspended on; the reply it waited for no longer resumes it
CancelRequested(r) == [r EXCEPT !.pc = "cancelling"]

\* stop_loop that stops the loop without cancelling the tasks
StopLoopWithoutCancel ==
    /\ event_loop = "running"
    /\ event_loop' = "stopped"
    /\ UNCHANGED <<installed, packages, pkgcalls, published, settings,
                   command_prefix, external, inv, users>>

\* Bot.stop_loop (bot.py 107-121): the pending tasks are gathered and the
\* gathering is cancelled, which cancels each of them; without pending tasks
\* the loop is stopped at once
stop_loop ==
    /\ event_loop = "running"
    /\ IF Pending # {}
       THEN /\ inv' = [i \in Tasks |->
                          IF i \in Pending THEN CancelRequested(inv[i]) ELSE inv[i]]
            /\ event_loop' = "cancelling"
       ELSE /\ event_loop' = "stopped"
            /\ UNCHANGED inv
    /\ UNCHANGED <<installed, packages, pkgcalls, published, settings,
                   command_prefix, external, users>>

\* CancelledError is thrown into the coroutine: no except or finally of the
\* commands is around their awaits, so every frame is left and the task ends
Cancelled(i) ==
    /\ inv[i].pc = "cancelling"
    /\ inv' = [inv EXCEPT ![i] = [@ EXCEPT !.pc = "cancelled", !.stack = <<>>]]
    /\ UNCHANGED <<installed, packages, pkgcalls, published, settings,
                   command_prefix, external, event_loop, users>>

\* silence_gathered (bot.py 108-112), the done callback of the gathering:
\* `finally: self.loop.stop()`. The callbacks that throw CancelledError into
\* the tasks were scheduled by gathered.cancel(), before this one
silence_gathered ==
    /\ event_loop = "cancelling"
    /\ \A i \in Tasks : inv[i].pc # "cancelling"
    /\ event_loop' = "stopped"
    /\ UNCHANGED <<installed, packages, pkgcalls, published, settings,
                   command_prefix, external, inv, users>>

\* the messages are read by the task of Bot.run (bot.py 226-238), which is one
\* of the tasks cancelled: commands are dispatched while the loop runs
ShutdownDispatch(i) == event_loop = "running" /\ ConcDispatch(i)

ShutdownStep(i) ==
    \/ ShutdownDispatch(i)
    \/ BatchNext(i)
    \/ InstallCall(i)
    \/ PackagesAnswer(i)
    \/ Complete(i)
    \/ RestartAnswer(i)
    \/ answer_only(i)
    \/ Cancelled(i)

ShutdownNext ==
    \/ \E i \in Tasks : ShutdownStep(i)
    \/ stop_loop
    \/ silence_gathered

\* the loop runs the callbacks it has scheduled: the cancellation of each task
\* and the done callback of the gathering
ShutdownFairness ==
    /\ \A i \in Tasks : WF_vars(Cancelled(i))
    /\ WF_vars(silence_gathered)

ShutdownSpec == ConcInit /\ [][ShutdownNext]_vars /\ ShutdownFairness

\* ---------------------------------------------------------------- Bot.load_cogs

\* what load_extension does for a cog: 'core' registers the Core cog or does
\* not; an installed extension loads or raises an Exception
CoreOutcomes == {"loaded", "absent"}

\* a call of load_cogs; the outcomes are fixed by what is on disk
LoadCall(i) ==
    /\ inv[i].pc = "idle"
    /\ \E core \in CoreOutcomes, failing \in SUBSET Range(installed) :
        inv' = [inv EXCEPT ![i] =
            [Idle EXCEPT !.pc = "handler", !.cmd = "load_cogs",
                         !.arg = [core |-> core, failing |-> failing]]]
    /\ UNCHANGED <<installed, packages, pkgcalls, published, settings,
                   command_prefix, external, event_loop, users>>

\* bot.py 133-139: load_cog('core'), then ImportError when get_cog('Core') is
\* None; cogs = self.base.get_extensions()
LoadCore(i) ==
    /\ Handler(i, "load_cogs")
    /\ LET r == [inv[i] EXCEPT !.attempted = <<"core">>] IN
       inv' = [inv EXCEPT ![i] =
           IF r.arg.core = "absent"
           THEN [Fail(r) EXCEPT !.answer = "ImportError"]
           ELSE [r EXCEPT !.pc = "load", !.batch = get_extensions, !.idx = 0]]
    /\ UNCHANGED <<installed, packages, pkgcalls, published, settings,
                   command_prefix, external, event_loop, users>>

\* LoadNext where the first failure ends the loop
LoadNextStopsAtFailure(i) ==
    /\ inv[i].pc = "load"
    /\ LET r == inv[i] IN
       inv' = [inv EXCEPT ![i] =
           IF r.idx < Len(r.batch)
           THEN LET cog == r.batch[r.idx + 1]
                    tried == [r EXCEPT !.attempted = Append(@, cog), !.idx = @ + 1]
                IN IF cog \in r.arg.failing
                   THEN [StatusAppend(Send(tried, "load_error", cog), "failed_extensions", cog)
                            EXCEPT !.idx = Len(r.batch)]
                   ELSE tried
           ELSE [(IF r.status.failed_extensions # <<>>
                  THEN Send(r, "failed_to_load", "")
                  ELSE r) EXCEPT !.pc = "done", !.answer = "core_cog"]]
    /\ UNCHANGED <<installed, packages, pkgcalls, published, settings,
                   command_prefix, external, event_loop, users>>

\* bot.py 140-151: `for cog in cogs` with the try around load_cog, one cog per
\* step; then the list of the failed ones is printed and the Core cog returned
LoadNext(i) ==
    /\ inv[i].pc = "load"
    /\ LET r == inv[i] IN
       inv' = [inv EXCEPT ![i] =
           IF r.idx < Len(r.batch)
           THEN LET cog == r.batch[r.idx + 1]
                    tried == [r EXCEPT !.attempted = Append(@, cog), !.idx = @ + 1]
                IN IF cog \in r.arg.failing
                   THEN StatusAppend(Send(tried, "load_error", cog), "failed_extensions", cog)
                   ELSE tried
           ELSE [(IF r.status.failed_extensions # <<>>
                  THEN Send(r, "failed_to_load", "")
                  ELSE r) EXCEPT !.pc = "done", !.answer = "core_cog"]]
    /\ UNCHANGED <<installed, packages, pkgcalls, published, settings,
                   command_prefix, external, event_loop, users>>

LoadStep(i) ==
    \/ LoadCall(i)
    \/ LoadCore(i)
    \/ LoadNext(i)

LoadNextOf == \E i \in Invocations : LoadStep(i)

LoadSpec == Init /\ [][LoadNextOf]_vars

\* ---------------------------------------------------------------- restart and on_ready

MaxRestarts == 2

\* what CoreController.restart is handed: the channel or the author of the
\* restart command (cogs.py 577-581), a guild, or nothing
RestartTargets == Channels \cup {"owner", "g1", None}

\* a call of CoreController.restart(restarted_from=target)
RestartCall(i) ==
    /\ inv[i].pc = "idle"
    /\ Len(published) < MaxRestarts
    /\ \E target \in RestartTargets :
        inv' = [inv EXCEPT ![i] =
            [Idle EXCEPT !.pc = "handler", !.cmd = "core.restart", !.arg = target]]
    /\ UNCHANGED <<installed, packages, pkgcalls, published, settings,
                   command_prefix, external, event_loop, users>>

\* controllers.py 83-84 with set_restarted_from (68-75): the id is stored, or
\* TypeError leaves restart before the publish
set_restarted_from(i) ==
    /\ Handler(i, "core.restart")
    /\ LET r == inv[i] IN
       IF r.arg = None
       THEN /\ inv' = [inv EXCEPT ![i] = [r EXCEPT !.pc = "publish"]]
            /\ UNCHANGED settings
       ELSE IF IsMessageable(r.arg)
       THEN /\ inv' = [inv EXCEPT ![i] = [r EXCEPT !.pc = "publish"]]
            /\ settings' = [settings EXCEPT !.restarted_from = IdOf(r.arg)]
       ELSE /\ inv' = [inv EXCEPT ![i] = [Fail(r) EXCEPT !.answer = "TypeError"]]
            /\ UNCHANGED settings
    /\ UNCHANGED <<installed, packages, pkgcalls, published,
                   command_prefix, external, event_loop, users>>

\* controllers.py 85: await self.cache.publish('restart')
publish_restart(i) ==
    /\ inv[i].pc = "publish"
    /\ published' = Append(published, "restart")
    /\ inv' = [inv EXCEPT ![i] = Finish(inv[i])]
    /\ UNCHANGED <<installed, packages, pkgcalls, settings,
                   command_prefix, external, event_loop, users>>

\* on_ready that keeps restarted_from in the cache
OnReadyWithoutReset ==
    /\ \A i \in Invocations : inv[i].pc # "publish"
    /\ IF settings.restarted_from # None
       THEN external' = Append(external, <<"im_back", settings.restarted_from>>)
       ELSE UNCHANGED external
    /\ UNCHANGED <<inv, installed, packages, pkgcalls, published, settings,
                   command_prefix, event_loop, users>>

\* bot.py 67-75: "I'm back!" goes to discord.Object(restarted_from) and the
\* key is deleted; there is no await between set_restarted_from and the call
\* of publish, so the event does not run between the two
on_ready ==
    /\ \A i \in Invocations : inv[i].pc # "publish"
    /\ IF settings.restarted_from # None
       THEN /\ external' = Append(external, <<"im_back", settings.restarted_from>>)
            /\ settings' = [settings EXCEPT !.restarted_from = None]
       ELSE UNCHANGED <<external, settings>>
    /\ UNCHANGED <<inv, installed, packages, pkgcalls, published,
                   command_prefix, event_loop, users>>

RestartStep(i) ==
    \/ RestartCall(i)
    \/ set_restarted_from(i)
    \/ publish_restart(i)
    \/ NextCommand(i)

RestartNext ==
    \/ \E i \in Invocations : RestartStep(i)
    \/ on_ready

RestartSpec == Init /\ [][RestartNext]_vars

\* ---------------------------------------------------------------- on_command_completion

MaxCompleted == 2

\* User.objects.filter(id=id).exists()
Registered(table, id) == \E u \in table : u.id = id

\* User.objects.get_or_create(id=id): the table after the call
get_or_create(table, id) ==
    IF Registered(table, id) THEN table
    ELSE table \cup {[id |-> id, command_count |-> 0]}

\* user.command_count += 1; user.save()
Counted(table, id) ==
    {IF u.id = id THEN [u EXCEPT !.command_count = @ + 1] ELSE u : u \in table}

\* a command message, while the counts are below the bound
CompletionDispatch(i) ==
    /\ \A u \in users : u.command_count < MaxCompleted
    /\ DispatchOf(i, PrefixCommands \cup {"ping"})

\* bot.py 58-65: the row is fetched or created first, and exists() is
\* evaluated on the table after that
on_command_completion(i) ==
    /\ inv[i].pc = "done"
    /\ LET author == inv[i].author
           table == get_or_create(users, IdOf(author))
           user_already_registered == Registered(table, IdOf(author))
       IN /\ users' = Counted(table, IdOf(author))
          /\ IF ~user_already_registered
             THEN external' = Append(external, <<"user_registered", IdOf(author)>>)
             ELSE UNCHANGED external
    /\ inv' = [inv EXCEPT ![i] = Idle]
    /\ UNCHANGED <<installed, packages, pkgcalls, published, settings,
                   command_prefix, event_loop>>

\* a command that raised or was rejected by a check is not completed
CommandError(i) ==
    /\ inv[i].pc \in {"failed", "rejected"}
    /\ inv' = [inv EXCEPT ![i] = Idle]
    /\ UNCHANGED <<installed, packages, pkgcalls, published, settings,
                   command_prefix, external, event_loop, users>>

CompletionStep(i) ==
    \/ CompletionDispatch(i)
    \/ add_prefix(i)
    \/ remove_prefix(i)
    \/ prefixes(i)
    \/ answer_only(i)
    \/ on_command_completion(i)
    \/ CommandError(i)

CompletionNext == \E i \in Invocations : CompletionStep(i)

CompletionSpec == Init /\ [][CompletionNext]_vars

\* ---------------------------------------------------------------- add_prefix, then remove_prefix

\* after a successful add_prefix the same author sends remove_prefix with the
\* same argument text; the messages sent so far are kept
RemoveSameArgument(i) ==
    /\ inv[i].pc = "done"
    /\ inv[i].cmd = "add_prefix"
    /\ inv[i].sent = <<<<"prefix_added", Unquote(inv[i].arg)>>>>
    /\ command_prefix # <<>>
    /\ inv' = [inv EXCEPT ![i] =
           Invoke(inv[i], inv[i].author, inv[i].channel, "remove_prefix", inv[i].arg)]
    /\ UNCHANGED <<installed, packages, pkgcalls, published, settings,
                   command_prefix, external, event_loop, users>>

RoundTripStep(i) ==
    \/ DispatchPrefixCommand(i)
    \/ add_prefix(i)
    \/ RemoveSameArgument(i)
    \/ remove_prefix(i)
    \/ prefixes(i)
    \/ NextCommand(i)

RoundTripNext == \E i \in Invocations : RoundTripStep(i)

RoundTripSpec == Init /\ [][RoundTripNext]_vars

\* ---------------------------------------------------------------- properties

\* the completion report was delivered
Reported(i) == inv[i].cmd \in BatchCommands /\ inv[i].reports # <<>>
TheReport(i) == inv[i].reports[1]

\* a message of this kind was sent
HasSent(i, kind, what) == <<kind, what>> \in Range(inv[i].sent)

\* C1: when a batch command completes, every name the user supplied is in
\* exactly one of the report's succeeded and failed lists
C1_EveryNameReportedOnce ==
    \A i \in Invocations :
        Reported(i) =>
            \A k \in 1..Len(inv[i].batch) :
                (inv[i].batch[k] \in Range(TheReport(i).succeeded))
                    # (inv[i].batch[k] \in Range(TheReport(i).failed))

\* the install of 'weather' alone, from a registry without it and without its
\* package, where the user said yes to the package prompt and install_package
\* returned 0
WeatherConfirmed(i) ==
    /\ inv[i].cmd = "install"
    /\ inv[i].batch = <<"weather">>
    /\ inv[i].answers # <<>>
    /\ inv[i].answers[1] = <<"packages", "weather", TRUE>>
    /\ pkgcalls = <<<<"requests-lib", 0>>>>

\* C2: installing 'weather' with the package confirmed and installed ends with
\* installed = [weather], installed_packages = [requests-lib] and nothing failed
C2_WeatherInstalled ==
    \A i \in Invocations :
        (WeatherConfirmed(i) /\ Reported(i)) =>
            TheReport(i) = [succeeded |-> <<"weather">>,
                            installed_packages |-> <<"requests-lib">>,
                            failed |-> <<>>, failed_packages |-> <<>>]

\* the install of 'weather' alone where the package prompt was not answered
\* with yes
WeatherDeclined(i) ==
    /\ inv[i].cmd = "install"
    /\ inv[i].batch = <<"weather">>
    /\ inv[i].answers # <<>>
    /\ inv[i].answers[1] = <<"packages", "weather", FALSE>>

\* C3: installing 'weather' with the package prompt declined ends with
\* failed = [weather], the other lists empty, and install_package never called
C3_WeatherDeclined ==
    \A i \in Invocations :
        WeatherDeclined(i) =>
            /\ pkgcalls = <<>>
            /\ "weather" \notin Range(installed)
            /\ inv[i].status.failed_extensions = <<"weather">>
            /\ Reported(i) =>
                   TheReport(i) = [succeeded |-> <<>>, installed_packages |-> <<>>,
                                   failed |-> <<"weather">>, failed_packages |-> <<>>]

C3_Witness ==
    \E i \in Invocations : WeatherDeclined(i) /\ Reported(i) /\ inv[i].pc = "done"

\* install_package returned a non-zero exit code
PackageFailed == \E n \in 1..Len(pkgcalls) : pkgcalls[n][2] # 0

\* C4: in an install batch [x, y] where x fails and y succeeds, the report has
\* x in the failed list and y in the succeeded list; stated here for the
\* failure of a package installation
C4_FailedThenSucceeded ==
    \A i \in Invocations :
        (/\ Reported(i)
         /\ PackageFailed
         /\ inv[i].cmd = "install"
         /\ Len(inv[i].batch) = 2
         /\ inv[i].batch[1] \in Names
         /\ inv[i].batch[2] \in Names
         /\ inv[i].batch[1] # inv[i].batch[2]
         /\ inv[i].batch[1] \notin Range(TheReport(i).succeeded)
         /\ inv[i].batch[2] \in Range(TheReport(i).succeeded))
        => inv[i].batch[1] \in Range(TheReport(i).failed)

\* the message that opens the processing of an item
Opening(cmd, item) ==
    IF cmd = "install"
    THEN IF IsUrl(item) THEN <<"specify_extension_name", item>> ELSE <<"installing", item>>
    ELSE IF cmd = "update" THEN <<"updating", item>>
    ELSE <<"uninstalling", item>>

\* C5: the items of a batch are processed one at a time in the order given, and
\* no failure or declined prompt stops the batch: when the report is sent every
\* item has been attempted
C5_EveryItemAttempted ==
    \A i \in Invocations :
        inv[i].cmd \in BatchCommands =>
            /\ inv[i].attempted = SubSeq(inv[i].batch, 1, inv[i].idx)
            /\ inv[i].stack # <<>> =>
                   /\ inv[i].idx >= 1
                   /\ ~IsUrl(inv[i].batch[inv[i].idx]) =>
                          inv[i].stack[1].ext = inv[i].batch[inv[i].idx]
            /\ Reported(i) =>
                   /\ inv[i].attempted = inv[i].batch
                   /\ \A k \in 1..Len(inv[i].batch) :
                          Opening(inv[i].cmd, inv[i].batch[k]) \in Range(inv[i].sent)

C5_Witness ==
    \E i \in Invocations :
        /\ Reported(i)
        /\ Len(inv[i].batch) = 2
        /\ inv[i].batch[1] \in Range(inv[i].status.failed_extensions)
        /\ inv[i].batch[2] \in Range(inv[i].status[SucceededKey(inv[i].cmd)])
        /\ inv[i].attempted = inv[i].batch

\* the cascade set shown for an uninstall is the set of installed dependents
C6_CascadeReported ==
    \A i \in Invocations :
        (inv[i].pc = "run" /\ inv[i].cmd = "uninstall" /\ Top(inv[i]).pc = "wait_cascade") =>
            /\ Top(inv[i]).to_cascade = Dependents(Top(inv[i]).ext, installed)
            /\ \A n \in 1..Len(Top(inv[i]).to_cascade) :
                   HasSent(i, "would_be_uninstalled_too", Top(inv[i]).to_cascade[n])
            /\ (installed = <<"a", "b", "c">> /\ Top(inv[i]).ext = "a") =>
                   Top(inv[i]).to_cascade = <<"b">>

\* no step removes an extension that an installed extension depends on
C6_NeverOrphaned ==
    [][\A n \in Range(installed) \ Range(installed') : Dependents(n, installed) = <<>>]_vars

\* C6: with a <- b <- c installed, uninstall(a) reports the cascade set [b], and
\* a is never removed while b is installed (nor b while c is)
C6_CascadingUninstall == []C6_CascadeReported /\ C6_NeverOrphaned

C6_Witness ==
    \E i \in Invocations :
        /\ inv[i].cmd = "uninstall"
        /\ inv[i].batch = <<"a">>
        /\ inv[i].status.uninstalled_extensions = <<"c", "b", "a">>
        /\ installed = <<>>

\* the commands C7 names as owner-only
C7_Commands ==
    {"install", "update", "uninstall", "set_name", "set_nickname", "set_game",
     "set_status", "set_stream", "set_avatar", "set_token", "set_description",
     "set_repository", "set_officialinvite", "add_prefix", "remove_prefix",
     "shutdown", "restart", "leave", "servers", "eval"}

NotByOwner(i) ==
    /\ inv[i].pc # "idle"
    /\ inv[i].cmd \in C7_Commands
    /\ inv[i].author # settings.owner

\* C7: an owner-only command invoked by someone who is not the owner never runs
\* its handler: nothing is sent and no state changes
C7_OwnerOnly ==
    /\ [](\A i \in Invocations :
              NotByOwner(i) =>
                  /\ inv[i].pc = "rejected"
                  /\ inv[i].sent = <<>>
                  /\ pkgcalls = <<>> /\ published = <<>> /\ external = <<>>
                  /\ settings = InitSettings
                  /\ command_prefix = InitSettings.prefixes)
    /\ [][(\A i \in Invocations : NotByOwner(i)' \/ NotByOwner(i)) =>
              UNCHANGED <<installed, packages, pkgcalls, published, settings,
                          command_prefix, external, event_loop>>]_vars

C7_Witness ==
    \E i \in Invocations :
        NotByOwner(i) /\ inv[i].cmd = "shutdown" /\ inv[i].author = "user"
        /\ inv[i].pc = "rejected"

\* C8: a message of a bot account is rejected by the global check before any
\* handler, for every command, with no response; every other author passes the
\* global check
C8_BotsRejected ==
    /\ \A author \in Authors : user_allowed(author) <=> ~IsBot(author)
    /\ \A i \in Invocations :
           (inv[i].pc # "idle" /\ IsBot(inv[i].author)) =>
               inv[i].pc = "rejected" /\ inv[i].sent = <<>>
    /\ \A i \in Invocations :
           (inv[i].pc # "idle" /\ ~IsBot(inv[i].author)
            /\ inv[i].cmd \notin OwnerOnly \cup Disabled) =>
               inv[i].pc # "rejected"

C8_Witness ==
    \E i \in Invocations :
        IsBot(inv[i].author) /\ inv[i].cmd = "ping" /\ inv[i].pc = "rejected"

\* the commands C9 names as open
C9_Commands == {"prefixes", "ping", "about", "version"}

\* C9: prefixes, ping, about and version run and respond when invoked by an
\* author who is neither the owner nor a bot
C9_OpenCommands ==
    \A i \in Invocations :
        (/\ inv[i].pc # "idle"
         /\ inv[i].cmd \in C9_Commands
         /\ ~IsBot(inv[i].author)
         /\ inv[i].author # settings.owner)
        => /\ inv[i].pc # "rejected"
           /\ inv[i].pc = "done" => inv[i].sent # <<>>

\* _install is about to call install_extension for a name that is installed
SecondInstall(i) ==
    /\ inv[i].pc = "run"
    /\ inv[i].cmd = "install"
    /\ \/ Top(inv[i]).pc = "start" /\ ~IsUrl(Top(inv[i]).ext)
       \/ Top(inv[i]).pc = "call"
    /\ Top(inv[i]).ext \in Range(installed)

\* C10: the install of a name that is installed fails with AlreadyInstalled: the
\* name is recorded as failed, no package is installed, no prompt is asked and
\* the installed set stays as it was
C10_SecondInstallFails ==
    [][\A i \in Invocations :
           SecondInstall(i) =>
               /\ installed' = installed
               /\ packages' = packages
               /\ pkgcalls' = pkgcalls
               /\ inv'[i].answers = inv[i].answers
               /\ inv'[i].sent = inv[i].sent \o <<<<"installing", Top(inv[i]).ext>>,
                                                  <<"ExtensionAlreadyInstalled", Top(inv[i]).ext>>>>
               /\ inv'[i].status =
                      [inv[i].status EXCEPT !.failed_extensions = Append(@, Top(inv[i]).ext)]
               /\ Len(inv'[i].stack) = Len(inv[i].stack) - 1]_vars

\* install a, install a: the first succeeded and the second failed
C10_Witness ==
    \E i \in Invocations :
        /\ inv[i].cmd = "install"
        /\ inv[i].batch = <<"a", "a">>
        /\ inv[i].status.installed_extensions = <<"a">>
        /\ inv[i].status.failed_extensions = <<"a">>
        /\ installed = <<"a">>
        /\ Reported(i)

\* _uninstall is about to call uninstall_extension for a name that is not
\* installed
UninstallOfMissing(i) ==
    /\ inv[i].pc = "run"
    /\ inv[i].cmd = "uninstall"
    /\ Top(inv[i]).pc = "start"
    /\ Top(inv[i]).ext \notin Range(installed)

\* C11: the uninstall of a name that is not installed fails with NotFound: the
\* name is recorded as failed, no cascade prompt is asked and the installed set
\* stays as it was
C11_UninstallOfMissingFails ==
    [][\A i \in Invocations :
           UninstallOfMissing(i) =>
               /\ installed' = installed
               /\ inv'[i].answers = inv[i].answers
               /\ inv'[i].sent = inv[i].sent \o <<<<"uninstalling", Top(inv[i]).ext>>,
                                                  <<"ExtensionNotFound", Top(inv[i]).ext>>>>
               /\ inv'[i].status =
                      [inv[i].status EXCEPT !.failed_extensions = Append(@, Top(inv[i]).ext)]
               /\ Len(inv'[i].stack) = Len(inv[i].stack) - 1]_vars

\* uninstall ghost with a, b, c installed: ghost failed and nothing was removed
C11_Witness ==
    \E i \in Invocations :
        /\ inv[i].cmd = "uninstall"
        /\ inv[i].batch = <<"ghost">>
        /\ Reported(i)
        /\ TheReport(i).failed = <<"ghost">>
        /\ TheReport(i).succeeded = <<>>
        /\ ~HasSent(i, "proceed_with_uninstallation", "ghost")
        /\ installed = <<"a", "b", "c">>

\* no prefix is twice in the list
NoDuplicates(list) ==
    \A j, k \in 1..Len(list) : j # k => list[j] # list[k]

\* add_prefix is about to run for a prefix that is in the list
AddOfExisting(i) ==
    /\ Handler(i, "add_prefix")
    /\ Unquote(inv[i].arg) \in Range(settings.prefixes)

\* C12: add_prefix of a prefix that is in the list answers PrefixAlreadyExists
\* and changes neither the stored list nor command_prefix; no sequence of
\* add_prefix and remove_prefix commands stores a prefix twice
C12_PrefixUniqueness ==
    /\ [](NoDuplicates(settings.prefixes) /\ NoDuplicates(command_prefix))
    /\ [][\A i \in Invocations :
              AddOfExisting(i) =>
                  /\ settings' = settings
                  /\ command_prefix' = command_prefix
                  /\ inv'[i].sent = <<<<"PrefixAlreadyExists", Unquote(inv[i].arg)>>>>
                  /\ inv'[i].pc = "done"]_vars

\* '?' was added by an earlier command, and adding it again was refused
C12_Witness ==
    \E i \in Invocations :
        /\ inv[i].cmd = "add_prefix"
        /\ inv[i].sent = <<<<"PrefixAlreadyExists", "?">>>>
        /\ settings.prefixes = <<"!", "?">>
        /\ command_prefix = <<"!", "?">>

\* C13: after setup the stored prefix list is never empty
C13_PrefixesNonEmpty == settings.prefixes # <<>>

\* how many messages of this kind were sent
CountSent(i, kind) ==
    Cardinality({n \in 1..Len(inv[i].sent) : inv[i].sent[n][1] = kind})

\* the places of the messages of this kind among the messages sent
PlacesSent(i, kind) == {n \in 1..Len(inv[i].sent) : inv[i].sent[n][1] = kind}

TimedOut(i) ==
    /\ Len(inv'[i].answers) = Len(inv[i].answers) + 1
    /\ inv'[i].answer = None

\* the message that tells a prompt was taken as declined; the restart prompt
\* has none
DeclineNotice(prompt) ==
    CASE prompt = "packages" -> "will_not_install_packages"
      [] prompt = "extensions" -> "will_not_install_dependencies"
      [] prompt = "cascade" -> "will_not_uninstall"
      [] prompt = "leave" -> "stay_here"
      [] OTHER -> "stay_then"

\* a prompt that times out changes nothing outside the invocation: nothing is
\* installed, uninstalled, restarted or left
C15_TimeoutChangesNothing ==
    [][\A i \in Invocations :
           TimedOut(i) =>
               /\ UNCHANGED <<installed, packages, pkgcalls, published, settings,
                              command_prefix, external, event_loop>>
               /\ inv'[i].pc \in {"run", "batch", "done"}
               /\ inv'[i].stack = <<>> \/ Len(inv'[i].stack) = Len(inv[i].stack) - 1
               /\ LET prompt == inv'[i].answers[Len(inv'[i].answers)][1] IN
                  \/ prompt = "restart" /\ inv'[i].sent = inv[i].sent
                  \/ /\ inv[i].cmd = "update" /\ prompt = "extensions"
                     /\ inv'[i].sent[Len(inv'[i].sent)][1] = "failed_to_install_dependencies"
                  \/ inv'[i].sent[Len(inv'[i].sent)][1] = DeclineNotice(prompt)]_vars

\* leave_confirmation applied to a timeout: the guild is not left and the
\* answer is "I'll stay then."
C15_LeaveConfirmation ==
    \A i \in Invocations :
        \A guild \in Range(Guilds) :
            LET out == leave_confirmation(inv[i], guild, None) IN
            /\ ~out.leaves
            /\ out.inv.sent = Append(inv[i].sent, <<"stay_then", guild>>)
            /\ [out.inv EXCEPT !.answer = False] = leave_confirmation(inv[i], guild, "no").inv

\* C15: a yes/no prompt that times out is taken as a 'no' in every flow:
\* nothing is installed, uninstalled, restarted or left, no error is raised and
\* the command goes on to its end
C15_TimeoutIsNo ==
    /\ C15_TimeoutChangesNothing
    /\ []C15_LeaveConfirmation

\* the package prompt of `install weather` timed out and the command ended
\* with its report
C15_Witness ==
    \E i \in Invocations :
        /\ inv[i].cmd = "install"
        /\ inv[i].batch = <<"weather">>
        /\ inv[i].answers = <<<<"packages", "weather", FALSE>>>>
        /\ inv[i].answer = None
        /\ inv[i].pc = "done"
        /\ Reported(i)
        /\ pkgcalls = <<>>
        /\ installed = <<>>

\* C16: wait_for_answer gives None when no reply arrived, which is not the
\* False it gives for a reply that is not an affirmative one, and the caller
\* holds the value as it was given
C16_NoReplyIsNotNo ==
    /\ wait_for_answer(None) = None
    /\ \A reply \in Replies : wait_for_answer(reply) \in {True, False}
    /\ wait_for_answer("no") = False
    /\ None # False
    /\ \A i \in Invocations :
           (inv[i].answers # <<>> /\ inv[i].cmd # "update") =>
               /\ inv[i].answer \in {None, True, False}
               /\ inv[i].answers[Len(inv[i].answers)][3] <=> inv[i].answer = True

\* leave was asked, no reply arrived, and the caller holds None
C16_Witness ==
    \E i \in Invocations :
        /\ inv[i].cmd = "leave"
        /\ inv[i].pc = "done"
        /\ inv[i].answer = None
        /\ HasSent(i, "stay_here", "")

\* the numbered list wait_for_choice is to send: one line per choice, numbered
\* from 1
NumberedList(choices) == [n \in 1..Len(choices) |-> <<"choice", <<n, choices[n]>>>>]

\* C17: wait_for_choice presents the choices as a list numbered from 1 and then
\* waits; the wait is resolved only by a message whose first character is a
\* number from 1 to the number of choices
C17_ChoicesPresented ==
    \A i \in Invocations :
        /\ (inv[i].cmd = "wait_for_choice" /\ inv[i].pc # "handler") =>
               /\ inv[i].pc # "failed"
               /\ inv[i].sent = NumberedList(inv[i].arg.choices)
        /\ (inv[i].cmd = "choice_check" /\ inv[i].pc = "done") =>
               (inv[i].answer = True <=>
                    /\ FirstChar(inv[i].arg.content) \in Digits
                    /\ DigitValue(FirstChar(inv[i].arg.content))
                           \in 1..Len(inv[i].arg.choices))

\* C18: a message that is malformed (not a number, or empty) raises no error in
\* the check of wait_for_choice: it is not a match
C18_MalformedIsNoMatch ==
    \A i \in Invocations :
        (inv[i].cmd = "choice_check" /\ inv[i].pc # "handler") =>
            /\ inv[i].pc = "done"
            /\ (inv[i].arg.content = "" \/ FirstChar(inv[i].arg.content) \notin Digits) =>
                   inv[i].answer = False

\* something was recorded in the lists of the report
Gathered(i) ==
    \/ inv[i].status[SucceededKey(inv[i].cmd)] # <<>>
    \/ inv[i].status.failed_extensions # <<>>

\* C19: when an unexpected failure ends a batch command, the report of what
\* was recorded up to then is still sent
C19_PartialReportDelivered ==
    \A i \in Invocations :
        (inv[i].cmd \in BatchCommands /\ inv[i].pc = "failed" /\ Gathered(i)) =>
            /\ Reported(i)
            /\ TheReport(i) = ReportOf(inv[i])

\* the entry at place k of the list was installed as a dependency of the entry
\* at place j: the one declares it and the user did not ask for it, by its
\* name or by a URL
InstalledFor(i, list, k, j) ==
    /\ list[k] \in Range(Declared(list[j]).extensions)
    /\ list[k] \notin Range(inv[i].batch)
    /\ \A n \in 1..Len(inv[i].batch) : ~IsUrl(inv[i].batch[n])

\* C20: the entries of an install report are in the order the items were
\* processed, the user's order, with a dependency that was installed
\* recursively placed after the extension that required it
C20_DependencyAfterRequirer ==
    \A i \in Invocations :
        (Reported(i) /\ inv[i].cmd = "install") =>
            LET list == TheReport(i).succeeded IN
            \A j, k \in 1..Len(list) : InstalledFor(i, list, k, j) => k > j

\* every yes/no prompt of the items was answered with yes
AllAffirmed(i) ==
    \A n \in 1..Len(inv[i].answers) :
        inv[i].answers[n][1] # "restart" => inv[i].answers[n][3]

\* the prompt of this kind was answered for this name with yes
Confirmed(i, prompt, name) == <<prompt, name, TRUE>> \in Range(inv[i].answers)

\* the names shown as the cascade set of an uninstall
ShownInCascade(i) ==
    {inv[i].sent[n][2] : n \in {m \in 1..Len(inv[i].sent) :
                                    inv[i].sent[m][1] = "would_be_uninstalled_too"}}

\* C26: a confirmed cascade uninstall attempts every member of the cascade set
\* that was shown, whatever its size, and when all of them are uninstalled the
\* target is retried, removed and reported as uninstalled
C26_CascadeUninstallsAll ==
    \A i \in Invocations :
        (/\ Reported(i)
         /\ inv[i].cmd = "uninstall"
         /\ Len(inv[i].batch) = 1
         /\ Confirmed(i, "cascade", inv[i].batch[1])
         /\ AllAffirmed(i))
        => /\ \A name \in ShownInCascade(i) : HasSent(i, "uninstalling", name)
           /\ (\A name \in ShownInCascade(i) : name \notin Range(installed)) =>
                  /\ inv[i].batch[1] \notin Range(installed)
                  /\ inv[i].batch[1] \in Range(TheReport(i).succeeded)

\* C27: a confirmed dependency install attempts every dependency that was
\* missing, whatever their number, and when all of them are installed the
\* original extension is retried and reported as installed
C27_DependenciesInstalledAll ==
    \A i \in Invocations :
        (/\ Reported(i)
         /\ inv[i].cmd = "install"
         /\ Len(inv[i].batch) = 1
         /\ Confirmed(i, "extensions", inv[i].batch[1])
         /\ AllAffirmed(i))
        => LET listed == Range(Declared(inv[i].batch[1]).extensions) IN
           /\ \A dep \in listed :
                  dep \in Range(installed) \/ HasSent(i, "installing", dep)
           /\ (\A dep \in listed : dep \in Range(installed)) =>
                  inv[i].batch[1] \in Range(TheReport(i).succeeded)

\* the calls of install_package for this package
CallsOf(package) == {n \in 1..Len(pkgcalls) : pkgcalls[n][1] = package}

\* C28: after a confirmed package prompt install_package is called once for
\* each missing package; a package is among the installed packages of the
\* report exactly when its call returned 0, and among the failed packages only
\* when it was called and returned another code
C28_PackagesCalledOnce ==
    \A i \in Invocations :
        (/\ Reported(i)
         /\ inv[i].cmd = "install"
         /\ Len(inv[i].batch) = 1
         /\ Confirmed(i, "packages", inv[i].batch[1]))
        => /\ \A p \in Range(Declared(inv[i].batch[1]).packages) :
                  /\ Cardinality(CallsOf(p)) <= 1
                  /\ p \notin packages => CallsOf(p) # {}
           /\ \A p \in Range(TheReport(i).installed_packages) :
                  <<p, 0>> \in Range(pkgcalls)
           /\ \A n \in 1..Len(pkgcalls) :
                  pkgcalls[n][2] = 0 =>
                      pkgcalls[n][1] \in Range(TheReport(i).installed_packages)
           /\ \A p \in Range(TheReport(i).failed_packages) :
                  \E n \in CallsOf(p) : pkgcalls[n][2] # 0

\* C29: in update, an extension whose new-requirements prompt was declined or
\* timed out is listed among the extensions that failed to update
C29_DeclinedUpdateReported ==
    \A i \in Invocations :
        (Reported(i) /\ inv[i].cmd = "update") =>
            \A n \in 1..Len(inv[i].answers) :
                (inv[i].answers[n][1] = "packages" /\ ~inv[i].answers[n][3]) =>
                    inv[i].answers[n][2] \in Range(TheReport(i).failed)

\* the frame holds the reply that named the extension of a URL item: a message
\* of the author of the command, in the channel of the command, without a space
NamedByReply(r, f) ==
    /\ f.message.author = r.author
    /\ f.message.channel = r.channel
    /\ f.message.content \in NameContents
    /\ ~HasSpace(f.message.content)
    /\ f.ext = f.message.content

\* a URL is the source repository of the one name given for it: of the frame
\* of the item and of no frame below it, and of no item that is not a URL
C30_RepositoryOfOneName ==
    \A i \in Invocations :
        (inv[i].cmd = "install" /\ inv[i].pc = "run") =>
            \A n \in 1..Len(inv[i].stack) :
                LET f == inv[i].stack[n] IN
                IF f.repository = None THEN f.message = NoMessage
                ELSE /\ n = 1
                     /\ IsUrl(inv[i].batch[inv[i].idx])
                     /\ f.repository = inv[i].batch[inv[i].idx]
                     /\ f.pc # "wait_name" => NamedByReply(inv[i], f)

\* a step of the wait for the name: the wait goes on, or a reply that passes
\* the check names the extension, or the item is skipped; install_extension is
\* not called in any of them
C30_NameWait ==
    [][\A i \in Invocations :
         Running(i, "install", "wait_name") =>
             LET r == inv[i]
                 url == r.batch[r.idx]
             IN /\ installed' = installed
                /\ \/ inv'[i] = r
                   \/ /\ Running(i, "install", "call")'
                      /\ NamedByReply(inv'[i], Top(inv'[i]))
                      /\ Top(inv'[i]).repository = url
                      /\ inv'[i].sent = r.sent
                      /\ inv'[i].status = r.status
                   \/ /\ inv'[i].pc = "batch"
                      /\ inv'[i].stack = <<>>
                      /\ inv'[i].sent = Append(r.sent, <<"skipping_this_extension", url>>)
                      /\ inv'[i].status = r.status]_vars

\* C30: a URL item of install asks for a name, and only a message of the same
\* author in the same channel without a space resolves the wait; the URL is the
\* source repository of that one name; without a reply the item is skipped and
\* install_extension is not called
C30_UrlItemNamed ==
    /\ []C30_RepositoryOfOneName
    /\ C30_NameWait

\* two URL items: the first was skipped without a reply, the second was named
\* 'ghost', which only the repository given can provide, and was installed
C30_Witness ==
    \E i \in Invocations :
        /\ inv[i].cmd = "install"
        /\ inv[i].batch = <<"https://r", "https://r">>
        /\ HasSent(i, "skipping_this_extension", "https://r")
        /\ Reported(i)
        /\ TheReport(i).succeeded = <<"ghost">>
        /\ TheReport(i).failed = <<>>
        /\ installed = <<"ghost">>

\* the two extensions of the index that declare each other as a dependency
CycleNames == {"x", "y"}

\* C25: _install keeps no set of the names it has visited: in the install of an
\* extension of a dependency cycle, as long as every dependency prompt is
\* answered with yes each answer adds a frame for the other extension of the
\* cycle, nothing is installed, and the command does not come back to its loop
\* over the batch, so the completion report is not sent
C25_CycleRecursesWithoutEnd ==
    \A i \in Invocations :
        (/\ inv[i].cmd = "install"
         /\ inv[i].pc \in {"batch", "run", "wait_restart", "done"}
         /\ inv[i].batch[1] \in CycleNames
         /\ inv[i].idx >= 1
         /\ AllAffirmed(i))
        => /\ inv[i].pc = "run"
           /\ inv[i].idx = 1
           /\ ~Reported(i)
           /\ inv[i].status = EmptyStatus
           /\ Len(inv[i].stack) >= Len(inv[i].answers)
           /\ \A n \in 1..Len(inv[i].stack) :
                  /\ inv[i].stack[n].ext \in CycleNames
                  /\ n > 1 => inv[i].stack[n].ext # inv[i].stack[n - 1].ext
           /\ CycleNames \cap Range(installed) = {}

\* install x with three dependency prompts answered with yes: the frames are
\* those of x, y and x again
C25_Witness ==
    \E i \in Invocations :
        /\ inv[i].cmd = "install"
        /\ inv[i].batch = <<"x">>
        /\ Len(inv[i].answers) = 3
        /\ AllAffirmed(i)
        /\ Len(inv[i].stack) = 3
        /\ inv[i].stack[1].ext = "x"
        /\ inv[i].stack[2].ext = "y"
        /\ inv[i].stack[3].ext = "x"
        /\ HasSent(i, "ask_dependencies", "y")

\* the invocation has called the registry for this name and has not yet left
\* the _install / _update / _uninstall of it
InProgress(i, name) ==
    /\ inv[i].pc = "run"
    /\ \E n \in 1..Len(inv[i].stack) :
           /\ inv[i].stack[n].ext = name
           /\ inv[i].stack[n].pc # "start"

\* C21: the operations on one extension name are serialized: of the invocations
\* in flight at most one is in progress on a name, so two installs of one name
\* never both find it not installed and both go on to ask for and install its
\* packages
C21_SerializedPerName ==
    \A i, j \in Tasks :
        i # j => \A name \in Names : ~(InProgress(i, name) /\ InProgress(j, name))

\* C22: at most one wait for a reply is outstanding for an author in a channel
C22_OneWaitPerPair ==
    \A i, j \in Tasks :
        i # j => ~(/\ Suspended(inv[i])
                   /\ Listens(inv[j], inv[i].author, inv[i].channel))

\* while an invocation is suspended, a message with a command is dispatched to
\* another invocation, and an invocation that is in flight can take its step
C23_OthersCanStep ==
    \A i, j \in Tasks :
        (i # j /\ Suspended(inv[i])) =>
            /\ inv[j].pc = "idle" => ENABLED ConcDispatch(j)
            /\ InFlight(inv[j]) => ENABLED ConcStep(j)

\* the step of one invocation leaves alone the invocation that is suspended on
\* another author or in another channel
C23_WaitIsItsOwn ==
    [][\A i, j \in Tasks :
         (/\ i # j
          /\ Suspended(inv[i])
          /\ inv'[j] # inv[j]
          /\ ~Listens(inv[i], inv'[j].author, inv'[j].channel))
         => inv'[i] = inv[i]]_vars

\* C23: while one invocation is suspended in a wait for a reply, the commands
\* of other users and of other channels are dispatched and run to their end;
\* the wait holds up its own invocation only
C23_WaitBlocksOnlyItself ==
    /\ []C23_OthersCanStep
    /\ C23_WaitIsItsOwn

\* the owner's install of weather is suspended on its package prompt, and the
\* ping of another user in the same channel and has been answered
C23_Witness ==
    \E i, j \in Tasks :
        /\ inv[i].cmd = "install"
        /\ inv[i].batch = <<"weather">>
        /\ Suspended(inv[i])
        /\ inv[i].answers = <<>>
        /\ inv[j].cmd = "ping"
        /\ inv[j].author = "user"
        /\ inv[j].channel = inv[i].channel
        /\ inv[j].pc = "done"
        /\ HasSent(j, "ping", "")

\* once stop_loop was called no task is left in the middle of a command: each
\* has ended, or its cancellation is requested
C24_EveryTaskCancelled ==
    event_loop # "running" =>
        \A i \in Tasks :
            inv[i].pc \in {"idle", "done", "failed", "rejected", "cancelling", "cancelled"}

\* no step after stop_loop was called installs or uninstalls an extension,
\* installs a package, restarts the bot or changes a setting, and a task that
\* is cancelled sends nothing and records nothing on its way out
C24_NoContinuation ==
    [][/\ event_loop # "running" =>
              /\ UNCHANGED <<installed, packages, pkgcalls, published, settings,
                             command_prefix, external>>
              /\ \A i \in Tasks :
                     /\ inv'[i].sent = inv[i].sent
                     /\ inv'[i].status = inv[i].status
                     /\ inv'[i].answers = inv[i].answers
                     /\ inv'[i].reports = inv[i].reports
       /\ \A i \in Tasks :
              inv[i].pc = "cancelling" => inv'[i].pc \in {"cancelling", "cancelled"}]_vars

\* once stop_loop was called the loop stops, with no task left suspended
C24_LoopStops ==
    (event_loop # "running") ~>
        (/\ event_loop = "stopped"
         /\ \A i \in Tasks : ~InFlight(inv[i]))

\* C24: stop_loop cancels every pending task and the loop stops in the end; a
\* command that is suspended in a wait for a reply is released without its
\* continuation being run, so that after the call nothing is installed,
\* uninstalled or restarted, and no wait is left outstanding
C24_ShutdownReleasesWaits ==
    /\ []C24_EveryTaskCancelled
    /\ C24_NoContinuation
    /\ C24_LoopStops

\* the loop stopped while two installs were suspended on their package prompts:
\* both were cancelled, no reply was taken and no package was installed
C24_Witness ==
    /\ event_loop = "stopped"
    /\ pkgcalls = <<>>
    /\ \A i \in Tasks :
           /\ inv[i].pc = "cancelled"
           /\ inv[i].cmd = "install"
           /\ HasSent(i, "ask_packages", "weather")
           /\ inv[i].answers = <<>>

\* the text is one of the numbers the list of servers shows: the list numbers
\* the guilds from 0 (cogs.py 621-623)
ListedNumber(text) == text \in Digits /\ DigitValue(text) \in GuildKeys

\* C31: servers lists the guilds with their numbers, and a reply of the owner
\* that is the number of a listed guild starts the leave confirmation for it
C31_NumberStartsLeave ==
    \A i \in Invocations :
        (/\ inv[i].cmd = "servers"
         /\ inv[i].pc \in {"wait_leave_guild", "done"}
         /\ ListedNumber(inv[i].answer))
        => \E n \in 1..Len(inv[i].sent) : inv[i].sent[n][1] = "ask_leave_guild"

\* the entries of a list that are in a set, in the order of the list
Those(list, set) == SelectSeq(list, LAMBDA e : e \in set)

\* C32: load_cogs loads the Core cog first and raises ImportError when it is
\* absent; after that every installed extension is attempted once, in the
\* order of the registry, and one that fails to load is recorded in the failed
\* list without ending the loop
C32_EveryCogAttempted ==
    \A i \in Invocations :
        (inv[i].cmd = "load_cogs" /\ inv[i].pc # "handler") =>
            LET r == inv[i] IN
            /\ r.attempted[1] = "core"
            /\ r.arg.core = "absent" <=> r.pc = "failed"
            /\ r.pc = "failed" => r.answer = "ImportError" /\ r.attempted = <<"core">>
            /\ r.pc = "load" =>
                   /\ r.attempted = <<"core">> \o SubSeq(installed, 1, r.idx)
                   /\ r.status.failed_extensions
                          = Those(SubSeq(installed, 1, r.idx), r.arg.failing)
            /\ r.pc = "done" =>
                   /\ r.attempted = <<"core">> \o installed
                   /\ r.status.failed_extensions = Those(installed, r.arg.failing)
                   /\ r.answer = "core_cog"

\* weather failed to load between a and b: all four were attempted and the
\* failed list holds weather
C32_Witness ==
    \E i \in Invocations :
        /\ inv[i].cmd = "load_cogs"
        /\ inv[i].pc = "done"
        /\ inv[i].attempted = <<"core", "a", "weather", "b", "d">>
        /\ inv[i].status.failed_extensions = <<"weather">>
        /\ HasSent(i, "failed_to_load", "")

\* C33: restart stores the id of its target before 'restart' is published;
\* on_ready sends "I'm back!" to the stored id and clears it in the same step,
\* so the greetings never outnumber the restarts and an on_ready that finds
\* nothing stored sends nothing; a target that is not messageable gives
\* TypeError with nothing stored and nothing published
C33_RecordedBeforePublish ==
    \A i \in Invocations :
        (inv[i].pc = "publish" /\ inv[i].arg # None)
            => settings.restarted_from = IdOf(inv[i].arg)

C33_GreetingOnceThenCleared ==
    external' # external =>
        /\ settings.restarted_from # None
        /\ external' = Append(external, <<"im_back", settings.restarted_from>>)
        /\ settings'.restarted_from = None

C33_TypeErrorPublishesNothing ==
    \A i \in Invocations :
        (inv[i].pc = "handler" /\ inv[i].cmd = "core.restart"
         /\ inv[i].arg # None /\ ~IsMessageable(inv[i].arg)
         /\ inv'[i] # inv[i])
            => /\ inv'[i].pc = "failed"
               /\ inv'[i].answer = "TypeError"
               /\ UNCHANGED <<published, settings>>

C34_NoticeOnFirstCompletion ==
    [][\A a \in Authors :
        LET first == ~Registered(users, IdOf(a)) /\ Registered(users', IdOf(a))
            notice == external' = Append(external, <<"user_registered", IdOf(a)>>)
        IN first <=> notice]_vars

\* the step of an add_prefix or remove_prefix handler
PrefixChange(i) ==
    /\ inv[i].pc = "handler"
    /\ inv[i].cmd \in {"add_prefix", "remove_prefix"}
    /\ inv'[i].pc = "done"

\* the kind of the message the handler sent in this step
Answered(i) == inv'[i].sent[Len(inv'[i].sent)][1]

\* C35: command_prefix is the stored prefix list after every add_prefix and
\* remove_prefix that succeeded, with the added prefix in it and the removed
\* one not; one that answered PrefixAlreadyExists or PrefixNotFound changed
\* neither the stored list nor command_prefix
C35_ActivePrefixesAreStored ==
    /\ [](command_prefix = settings.prefixes)
    /\ [][\A i \in Invocations :
              PrefixChange(i) =>
                  /\ Answered(i) = "prefix_added" =>
                        /\ command_prefix' = settings'.prefixes
                        /\ Unquote(inv[i].arg) \in Range(command_prefix')
                  /\ Answered(i) = "prefix_removed" =>
                        /\ command_prefix' = settings'.prefixes
                        /\ inv[i].arg \notin Range(command_prefix')
                  /\ Answered(i) \in {"PrefixAlreadyExists", "PrefixNotFound"} =>
                        /\ settings' = settings
                        /\ command_prefix' = command_prefix]_vars

\* '!' was removed after '?' was added: only '?' is stored and active
C35_Witness ==
    \E i \in Invocations :
        /\ inv[i].cmd = "remove_prefix"
        /\ inv[i].pc = "done"
        /\ inv[i].sent = <<<<"prefix_removed", "!">>>>
        /\ settings.prefixes = <<"?">>
        /\ command_prefix = <<"?">>

\* remove_prefix with the argument text of the add_prefix that just succeeded
RemoveAfterAdd(i) ==
    /\ Handler(i, "remove_prefix")
    /\ inv[i].sent = <<<<"prefix_added", Unquote(inv[i].arg)>>>>

\* C36: remove_prefix with the argument text of an add_prefix that just
\* succeeded answers that the prefix was removed and stores the list that was
\* stored before the add (the list without the appended prefix)
C36_AddRemoveRoundTrip ==
    [][\A i \in Invocations :
          (RemoveAfterAdd(i) /\ inv'[i] # inv[i]) =>
              /\ Answered(i) = "prefix_removed"
              /\ settings'.prefixes = SubSeq(settings.prefixes, 1, Len(settings.prefixes) - 1)]_vars

====
